---- MODULE Spec2Model ----
(***************************************************************************)
(* Storage watcher of the RAG pipeline (SupabaseStorageWatcher): content-  *)
(* addressed change detection, per-object processing, and the watch /      *)
(* backfill / single orchestration modes, with the persisted sync state    *)
(* and the document store it drives.                                       *)
(***************************************************************************)
EXTENDS Integers, Sequences, FiniteSets, TLC

\* ------------------------------------------------------------------ bounds
MaxTime == 2        \* the clock runs 1..MaxTime
MaxBatches == 2     \* the store keeps at most this many chunk batches per id
MaxCap == 2         \* rate_limit.max_files_per_run and backfill caps: 0..MaxCap

\* -------------------------------------------------------- program constants
\* the two watched buckets, in the order the code walks them
Buckets == <<"meetings", "documents">>

\* the object identities "bucket/path" of the model, one per bucket
Ids == {"meetings/a.txt", "documents/b"}

BucketOf(id) == IF id = "meetings/a.txt" THEN "meetings" ELSE "documents"

\* Path(file_path).suffix.lower()
SuffixOf(id) == IF id = "meetings/a.txt" THEN ".txt" ELSE ""

\* config["supported_mime_types"] (the members the model's objects can carry)
supported_mime_types == {"application/pdf", "text/plain", "text/markdown"}

\* the values of a listing entry's "metadata" field:
\*   "null"   the field is None (folders, damaged entries)
\*   "none"   a dict without "mimetype"
\*   other    a dict whose "mimetype" is that string
Metas == {"null", "none", "text/plain", "image/png"}

\* the files uploaders put into the buckets: byte string and metadata
Files == {[bytes |-> 1, meta |-> "none"], [bytes |-> 2, meta |-> "text/plain"],
          [bytes |-> 3, meta |-> "image/png"], [bytes |-> 4, meta |-> "null"]}

\* the 1970 epoch load_config falls back to
Epoch == 0

\* hashlib.sha256(file_content).hexdigest(): collision free on the model's
\* byte strings, and not the byte string itself
compute_file_hash(bytes) == (bytes * 7919 + 104729) % 65536

\* --------------------------------------------------------------- the state
VARIABLES
    storage,          \* the buckets: id -> [bytes, meta, created_at, updated_at]
    now,              \* wall clock
    dry_run,          \* self.dry_run
    backend,          \* "db": state manager present; "file": config file only
    known_files,      \* self.known_files: id -> fingerprint
    last_check_time,  \* self.last_check_time
    saved,            \* persisted state: [last_check_time, known_files]
    store,            \* document store: id -> sequence of chunk batches
    pc,               \* position of the orchestrator
    batch,            \* files still to be handled by the running mode
    last,             \* observation: the process_file call of the latest step
    pending           \* watch mode: changed objects not yet processed successfully

\* the insight pipeline (BusinessInsightsEngine, EnhancedInsightsProcessor)
VARIABLES
    raw_insights,       \* the raw candidates the model returned for a document
    filtered_insights,  \* what extract_business_insights returns for them
    response_text,      \* a completion handed to _parse_insights_json
    parsed,             \* what _parse_insights_json did with it
    document_insights,  \* the document_insights table: document -> insert batches
    tasks,              \* the pipeline coroutines in flight
    batch_summary,      \* what process_batch_insights returned last
    runs                \* number of extraction runs started so far

\* the watcher's variables
wvars == <<storage, now, dry_run, backend, known_files,
           last_check_time, saved, store, pc, batch, last, pending>>

\* the insight pipeline's variables
ivars == <<raw_insights, filtered_insights, response_text, parsed,
           document_insights, tasks, batch_summary, runs>>

\* the text pipeline, the per-record save and the batch limiter
VARIABLES
    document,    \* the text handed to the chunker, with its file name and config
    chunks,      \* what the chunker returned for it
    saved_ids,   \* what save_insights_to_database returned last
    semaphore    \* the asyncio.Semaphore of process_batch_insights

cvars == <<document, chunks, saved_ids, semaphore>>

\* observation: the buckets as the get_changes of the running watch cycle saw
\* them; NoListing outside a cycle's batch
VARIABLE listed

vars == <<wvars, ivars, cvars, listed>>

NoListing == <<>>

NoDocument == <<>>
NotChunked == <<>>
NotSaved == <<>>
NoSemaphore == <<>>

\* the text pipeline, the save and the limiter at rest
ChunkingIdle ==
    /\ document = NoDocument
    /\ chunks = NotChunked
    /\ saved_ids = NotSaved
    /\ semaphore = NoSemaphore

EmptyMap == [i \in {} |-> 0]

\* dict assignment d[k] = v
Put(d, k, v) == [i \in DOMAIN d \cup {k} |-> IF i = k THEN v ELSE d[i]]

\* -------------------------------------------------- external collaborators
\* what can go wrong, or interrupt, inside one process_file call; the first
\* failing step ends the call, so one fault per call covers every combination
Faults == {"none", "download", "url", "delete", "text_empty", "text_raise",
           "rag_false", "rag_raise"}

\* KeyboardInterrupt arriving inside a call: while downloading, after the old
\* chunks were deleted, after process_file_for_rag stored the new chunks
Interrupts == {"intr_download", "intr_extract", "intr_after_rag"}

\* storage.from_(bucket).download(path): the bytes, or 0 for None / b""
download_file(stg, id, fault) ==
    IF fault = "download" \/ id \notin DOMAIN stg THEN 0 ELSE stg[id].bytes

\* common.db_handler.delete_document_by_file_id: drops every chunk of the id
delete_document_by_file_id(st, id) == [st EXCEPT ![id] = <<>>]

\* common.db_handler.process_file_for_rag on success: inserts the chunk batch
\* of this processing (tagged by the fingerprint of the processed bytes)
process_file_for_rag(st, id, hash) == [st EXCEPT ![id] = Append(@, hash)]

\* ------------------------------------------------------------ process_file
\* mime type from the metadata, else inferred from the extension (mime_map)
mime_type_of(info) ==
    IF info.meta \notin {"none", "null"} THEN info.meta
    ELSE IF SuffixOf(info.id) = ".txt" THEN "text/plain"
    ELSE "application/octet-stream"

is_mime_type_supported(mime_type) == mime_type \in supported_mime_types

\* variant of the skip test that looks at the identity only
already_processed_by_id(known, id, hash) == id \in DOMAIN known

\* variant of the skip test that never fires
already_processed_never(known, id, hash) == FALSE

\* the skip test: this exact content was already processed
already_processed(known, id, hash) == id \in DOMAIN known /\ known[id] = hash

\* variant that never deletes the old version
must_delete_old_never(known, id) == FALSE

\* the old version is deleted when the id has a stored fingerprint
must_delete_old(known, id) == id \in DOMAIN known

\* the outcome record of a call: what it returned ("True", "False", "raised"
\* for an exception leaving the method, "interrupted" for KeyboardInterrupt),
\* the collaborators it called in order, and the state it leaves
Outcome(res, calls, known, st, hash) ==
    [result |-> res, calls |-> calls, known |-> known, store |-> st, hash |-> hash]

\* variant of the try block that records the fingerprint before the result of
\* process_file_for_rag is known
process_block_records_early(info, fault, known, st, hash) ==
    LET id   == info.id
        del  == must_delete_old(known, id)
        c1   == IF del THEN <<"delete_document_by_file_id">> ELSE <<>>
        st1  == IF del THEN delete_document_by_file_id(st, id) ELSE st
        c2   == Append(c1, "process_file_for_rag")
        st2  == process_file_for_rag(st1, id, hash)
    IN  IF del /\ fault = "delete" THEN Outcome("False", c1, known, st, hash)
        ELSE IF fault = "intr_extract" THEN Outcome("interrupted", c1, known, st1, hash)
        ELSE IF fault \in {"text_empty", "text_raise"} THEN Outcome("False", c1, known, st1, hash)
        ELSE IF fault \in {"rag_false", "rag_raise"}
             THEN Outcome("False", c2, Put(known, id, hash), st1, hash)
        ELSE IF fault = "intr_after_rag"
             THEN Outcome("interrupted", c2, Put(known, id, hash), st2, hash)
        ELSE Outcome("True", c2, Put(known, id, hash), st2, hash)

\* the try block of process_file: delete old version, extract, process, record
process_block(info, fault, known, st, hash) ==
    LET id   == info.id
        del  == must_delete_old(known, id)
        c1   == IF del THEN <<"delete_document_by_file_id">> ELSE <<>>
        st1  == IF del THEN delete_document_by_file_id(st, id) ELSE st
        c2   == Append(c1, "process_file_for_rag")
        st2  == process_file_for_rag(st1, id, hash)
    IN  IF del /\ fault = "delete" THEN Outcome("False", c1, known, st, hash)
        ELSE IF fault = "intr_extract" THEN Outcome("interrupted", c1, known, st1, hash)
        ELSE IF fault \in {"text_empty", "text_raise"} THEN Outcome("False", c1, known, st1, hash)
        ELSE IF fault \in {"rag_false", "rag_raise"} THEN Outcome("False", c2, known, st1, hash)
        ELSE IF fault = "intr_after_rag" THEN Outcome("interrupted", c2, known, st2, hash)
        ELSE Outcome("True", c2, Put(known, id, hash), st2, hash)

\* variant of process_file without the dry-run return
process_file_ignores_dry_run(info, fault, stg, dry, known, st) ==
    LET id           == info.id
        file_content == download_file(stg, id, fault)
        file_hash    == compute_file_hash(file_content)
    IN  IF fault = "intr_download" THEN Outcome("interrupted", <<>>, known, st, 0)
        ELSE IF file_content = 0 THEN Outcome("False", <<>>, known, st, 0)
        ELSE IF already_processed(known, id, file_hash)
             THEN Outcome("True", <<>>, known, st, file_hash)
        ELSE IF info.meta = "null" THEN Outcome("raised", <<>>, known, st, file_hash)
        ELSE IF ~is_mime_type_supported(mime_type_of(info))
             THEN Outcome("False", <<>>, known, st, file_hash)
        ELSE IF fault = "url" THEN Outcome("raised", <<>>, known, st, file_hash)
        ELSE process_block(info, fault, known, st, file_hash)

process_file(info, fault, stg, dry, known, st) ==
    LET id           == info.id
        file_content == download_file(stg, id, fault)
        file_hash    == compute_file_hash(file_content)
    IN  IF fault = "intr_download" THEN Outcome("interrupted", <<>>, known, st, 0)
        ELSE IF file_content = 0 THEN Outcome("False", <<>>, known, st, 0)
        ELSE IF already_processed(known, id, file_hash)
             THEN Outcome("True", <<>>, known, st, file_hash)
        ELSE IF info.meta = "null" THEN Outcome("raised", <<>>, known, st, file_hash)
        ELSE IF ~is_mime_type_supported(mime_type_of(info))
             THEN Outcome("False", <<>>, known, st, file_hash)
        ELSE IF fault = "url" THEN Outcome("raised", <<>>, known, st, file_hash)
        ELSE IF dry THEN Outcome("True", <<>>, known, st, file_hash)
        ELSE process_block(info, fault, known, st, file_hash)

\* ------------------------------------------------- listing, change detection
\* the listing entry (file_info) of a stored object
file_info(stg, id) ==
    [id |-> id, meta |-> stg[id].meta,
     created_at |-> stg[id].created_at, updated_at |-> stg[id].updated_at]

\* list_bucket_files: the bucket's entries, or [] when the listing call raised
list_bucket_files(stg, bucket, listing_ok) ==
    IF ~listing_ok THEN <<>>
    ELSE IF \E id \in DOMAIN stg : BucketOf(id) = bucket
         THEN <<file_info(stg, CHOOSE id \in DOMAIN stg : BucketOf(id) = bucket)>>
         ELSE <<>>

\* variant of the timestamp test that also takes entries stamped at the watermark
is_changed_inclusive(info, lct) == info.created_at >= lct \/ info.updated_at >= lct

\* an entry counts as changed when created or updated strictly after the watermark
is_changed(info, lct) == info.created_at > lct \/ info.updated_at > lct

\* get_changes: both buckets in order, the changed entries of each
get_changes(stg, lct, listing_ok) ==
    LET m == list_bucket_files(stg, Buckets[1], listing_ok)
        d == list_bucket_files(stg, Buckets[2], listing_ok)
    IN  SelectSeq(m, LAMBDA f : is_changed(f, lct))
        \o SelectSeq(d, LAMBDA f : is_changed(f, lct))

\* every entry of both buckets (backfill)
list_all(stg, listing_ok) ==
    list_bucket_files(stg, Buckets[1], listing_ok)
    \o list_bucket_files(stg, Buckets[2], listing_ok)

\* seq[:n]
Prefix(seq, n) == SubSeq(seq, 1, IF n < Len(seq) THEN n ELSE Len(seq))

\* backfill's cap: "if max_files:" applies the slice
backfill_files(all_files, capped, n) ==
    IF capped /\ n # 0 THEN Prefix(all_files, n) ELSE all_files

\* watch_for_changes' cap: changed_files[:max_files]
files_to_process(changed_files, max_files) == Prefix(changed_files, max_files)

\* what process_file reads of a listing entry: bucket/name and metadata
Entries(seq) == [i \in 1..Len(seq) |-> [id |-> seq[i].id, meta |-> seq[i].meta]]

IdsOf(seq) == {seq[i].id : i \in 1..Len(seq)}

\* ------------------------------------------------------- persisted sync state
\* save_last_check_time: nothing in dry run; the watermark alone
\* (writes to the state manager and the config file are taken to succeed; a
\* write that is lost is the Restart that comes before it)
save_last_check_time(dry, sv, lct) ==
    IF dry THEN sv ELSE [sv EXCEPT !.last_check_time = lct]

\* save_state: nothing in dry run; watermark and known_files to the database,
\* or the watermark alone to the config file
save_state(dry, be, sv, lct, known) ==
    IF dry THEN sv
    ELSE IF be = "db" THEN [last_check_time |-> lct, known_files |-> known]
    ELSE save_last_check_time(dry, sv, lct)

\* load_config: known_files come back from the database only
loaded_known_files(be, sv) == IF be = "db" THEN sv.known_files ELSE EmptyMap

NoCall == [id |-> "", result |-> "none", calls |-> <<>>]

\* the observation of one process_file call
Observe(info, o) == [id |-> info.id, result |-> o.result, calls |-> o.calls]

\* ------------------------------------------------- insight pipeline: stage 4
\* texts are kept as what the code reads of them: the number of characters,
\* the set of lower-cased words (word ids), and whether the lower-cased text
\* contains one of the phrases of obvious_routine; none is longer than the
\* title[:100] / description[:500] cuts
Text(chars, words, routine) == [chars |-> chars, words |-> words, routine |-> routine]

EmptyText == Text(0, {}, FALSE)

\* max_insights in _filter_and_rank_insights
max_insights == 5

\* the most raw candidates one response carries in the model
MaxCandidates == 6

\* the values of BusinessInsightType
BusinessInsightType ==
    {"action_item", "decision", "risk", "opportunity", "milestone", "blocker",
     "dependency", "budget_impact", "timeline_change", "stakeholder_concern",
     "technical_debt", "resource_need", "compliance_issue", "strategic_pivot",
     "performance_metric"}

\* the values of BusinessSeverity
BusinessSeverity == {"critical", "high", "medium", "low"}

\* a raw JSON value of a numeric field: a number, a missing key, or a string
\* the conversion (float(), Decimal()) rejects
Number(v) == [kind |-> "number", value |-> v]

Absent == [kind |-> "absent", value |-> 0]

Unreadable == [kind |-> "text", value |-> 0]

\* raw confidence_score values, in hundredths
RawConfidences == {Number(60), Number(70), Number(90), Number(150), Absent, Unreadable}

\* raw severity values ("absent": the key is missing)
RawSeverities == {"critical", "low", "urgent", "absent"}

\* raw financial_impact values
RawFinancials == {Absent, Number(10000), Unreadable}

\* float(raw_insight.get('confidence_score', 0.7)), in hundredths
confidence_of(raw) ==
    IF raw.confidence_score.kind = "absent" THEN 70 ELSE raw.confidence_score.value

\* the financial impact after Decimal(): 0 stands for None
financial_impact_of(raw) ==
    IF raw.financial_impact.kind = "number" THEN raw.financial_impact.value ELSE 0

\* None, as a record of the same shape as an insight
NoInsight ==
    [insight_type |-> "none", title |-> EmptyText, description |-> EmptyText,
     confidence_score |-> 0, severity |-> "none", financial_impact |-> 0,
     urgency_indicators |-> FALSE, critical_path_impact |-> FALSE]

\* _convert_to_structured_insight: None when title or description is empty or
\* when a conversion raises; otherwise the fields as the model gave them
convert_to_structured_insight(raw) ==
    IF raw.title.chars = 0 \/ raw.description.chars = 0 THEN NoInsight
    ELSE IF raw.confidence_score.kind = "text" THEN NoInsight
    ELSE [insight_type         |-> raw.insight_type,
          title                |-> raw.title,
          description          |-> raw.description,
          confidence_score     |-> confidence_of(raw),
          severity             |-> IF raw.severity = "absent" THEN "medium"
                                   ELSE raw.severity,
          financial_impact     |-> financial_impact_of(raw),
          urgency_indicators   |-> raw.urgency_indicators,
          critical_path_impact |-> raw.critical_path_impact]

\* the conversion loop of extract_business_insights: the candidates that
\* converted, in order
structured_insights(raws) ==
    SelectSeq([i \in 1..Len(raws) |-> convert_to_structured_insight(raws[i])],
              LAMBDA x : x # NoInsight)

\* _is_obviously_routine
is_obviously_routine(insight) ==
    IF insight.title.routine \/ insight.description.routine
    THEN ~( \/ insight.financial_impact # 0
            \/ insight.critical_path_impact
            \/ insight.severity = "critical"
            \/ insight.urgency_indicators )
    ELSE FALSE

\* the quality test of _filter_and_rank_insights
is_high_quality(insight) ==
    /\ insight.confidence_score >= 70
    /\ insight.title.chars >= 10
    /\ insight.description.chars >= 20
    /\ insight.insight_type \in BusinessInsightType
    /\ \/ insight.severity \in {"critical", "high", "medium"}
       \/ insight.financial_impact # 0
       \/ insight.critical_path_impact
    /\ ~is_obviously_routine(insight)

\* _calculate_similarity(text1, text2) > num / 10, on the word sets
similarity_above(text1, text2, num) ==
    /\ text1.chars # 0 /\ text2.chars # 0
    /\ text1.words # {} /\ text2.words # {}
    /\ 10 * Cardinality(text1.words \cap text2.words)
         > num * Cardinality(text1.words \cup text2.words)

\* the duplicate test of _remove_duplicate_insights
is_similar(insight, existing) ==
    \/ similarity_above(insight.title, existing.title, 7)
    \/ similarity_above(insight.description, existing.description, 8)

\* list.remove(x): drops the first element equal to x
RemoveFirst(seq, x) ==
    LET i == CHOOSE i \in 1..Len(seq) :
                 seq[i] = x /\ \A j \in 1..(i - 1) : seq[j] # x
    IN  SubSeq(seq, 1, i - 1) \o SubSeq(seq, i + 1, Len(seq))

\* one turn of the outer loop of _remove_duplicate_insights
add_unique(unique_insights, insight) ==
    IF \E i \in 1..Len(unique_insights) : is_similar(insight, unique_insights[i])
    THEN LET i == CHOOSE i \in 1..Len(unique_insights) :
                      /\ is_similar(insight, unique_insights[i])
                      /\ \A j \in 1..(i - 1) : ~is_similar(insight, unique_insights[j])
             existing == unique_insights[i]
         IN  IF insight.confidence_score > existing.confidence_score
             THEN Append(RemoveFirst(unique_insights, existing), insight)
             ELSE unique_insights
    ELSE Append(unique_insights, insight)

RECURSIVE dedup_from(_, _, _)
dedup_from(insights, k, unique_insights) ==
    IF k > Len(insights) THEN unique_insights
    ELSE dedup_from(insights, k + 1, add_unique(unique_insights, insights[k]))

\* _remove_duplicate_insights
remove_duplicate_insights(insights) ==
    IF Len(insights) <= 1 THEN insights ELSE dedup_from(insights, 1, <<>>)

\* insight_score, times 100000 (hundredths of confidence, tenths of the three
\* multipliers)
insight_score(insight) ==
    (CASE insight.severity = "critical" -> 4
       [] insight.severity = "high" -> 3
       [] insight.severity = "medium" -> 2
       [] OTHER -> 1)
    * insight.confidence_score
    * (IF insight.urgency_indicators THEN 13 ELSE 10)
    * (IF insight.financial_impact # 0 THEN 15 ELSE 10)
    * (IF insight.critical_path_impact THEN 20 ELSE 10)

\* sorted(..., key=insight_score, reverse=True): stable, highest first
RECURSIVE ranked(_)
ranked(insights) ==
    IF insights = <<>> THEN <<>>
    ELSE LET i == CHOOSE i \in 1..Len(insights) :
                     /\ \A j \in 1..Len(insights) :
                           insight_score(insights[j]) <= insight_score(insights[i])
                     /\ \A j \in 1..(i - 1) :
                           insight_score(insights[j]) < insight_score(insights[i])
         IN  <<insights[i]>>
             \o ranked(SubSeq(insights, 1, i - 1) \o SubSeq(insights, i + 1, Len(insights)))

\* _filter_and_rank_insights
filter_and_rank_insights(insights) ==
    LET high_quality_insights == SelectSeq(insights, is_high_quality)
        ranked_insights == ranked(remove_duplicate_insights(high_quality_insights))
    IN  SubSeq(ranked_insights, 1,
               IF Len(ranked_insights) < max_insights THEN Len(ranked_insights)
               ELSE max_insights)

\* extract_business_insights after the model answered: convert, filter, rank
extract_business_insights(raws) == filter_and_rank_insights(structured_insights(raws))

\* a raw candidate as the model returns it
RawInsight(type, title, description, confidence, severity, financial, urgency, critical) ==
    [insight_type |-> type, title |-> title, description |-> description,
     confidence_score |-> confidence, severity |-> severity,
     financial_impact |-> financial, urgency_indicators |-> urgency,
     critical_path_impact |-> critical]

\* sound candidates that share no word with each other or with any other text
Filler(i) ==
    RawInsight("decision", Text(30, {100 + i}, FALSE), Text(40, {200 + i}, FALSE),
               Number(80 + i), "high", Absent, FALSE, FALSE)

Fillers(k) == [i \in 1..k |-> Filler(i)]

\* the first candidate of a response: every raw value of every field the
\* filter reads; the title is sound, has a routine phrase ("next meeting"),
\* is too short or is empty, or the description is too short
FirstCandidates ==
    {RawInsight(type, td[1], td[2], confidence, severity, financial, urgency, critical) :
        type \in {"risk", "observation"},
        td \in {<<Text(28, {1, 2, 3, 4}, FALSE), Text(31, {21, 22, 23, 24}, FALSE)>>,
                <<Text(19, {10, 11, 12}, TRUE), Text(31, {21, 22, 23, 24}, FALSE)>>,
                <<Text(4, {4}, FALSE), Text(31, {21, 22, 23, 24}, FALSE)>>,
                <<EmptyText, Text(31, {21, 22, 23, 24}, FALSE)>>,
                <<Text(28, {1, 2, 3, 4}, FALSE), Text(9, {31, 32}, FALSE)>>},
        confidence \in RawConfidences, severity \in RawSeverities,
        financial \in RawFinancials, urgency \in BOOLEAN, critical \in BOOLEAN}

\* a second candidate: same or other title, description with overlap 1, 4/5
\* or 0 with the first one's, lower or higher confidence
SecondCandidates ==
    {RawInsight("risk", title, description, confidence, "high", Absent, FALSE, FALSE) :
        title \in {Text(28, {1, 2, 3, 4}, FALSE), Text(32, {5, 6, 7, 8, 9}, FALSE)},
        description \in {Text(31, {21, 22, 23, 24}, FALSE),
                         Text(37, {21, 22, 23, 24, 25}, FALSE),
                         Text(29, {26, 27, 28, 29, 30}, FALSE)},
        confidence \in {Number(80), Number(95)}}

\* the first candidates that pass every quality test, for the pairs
PairCandidates ==
    {a \in FirstCandidates :
        /\ a.insight_type = "risk"
        /\ a.title = Text(28, {1, 2, 3, 4}, FALSE)
        /\ a.description = Text(31, {21, 22, 23, 24}, FALSE)
        /\ a.confidence_score \in {Number(70), Number(90)}
        /\ a.severity = "critical"
        /\ a.financial_impact = Absent
        /\ ~a.urgency_indicators /\ ~a.critical_path_impact}

\* the candidate lists of the model: one candidate, or two in either order,
\* alone or followed by fillers up to MaxCandidates
Responses ==
    LET singles == {<<a>> : a \in FirstCandidates}
        pairs == {<<a, b>> : a \in PairCandidates, b \in SecondCandidates}
                 \cup {<<b, a>> : a \in PairCandidates, b \in SecondCandidates}
    IN  singles \cup pairs
        \cup {h \o Fillers(MaxCandidates - 1) : h \in singles}
        \cup {h \o Fillers(MaxCandidates - 2) : h \in pairs}

\* ------------------------------------------------ insight pipeline: stage 2
\* what json.loads makes of a text: a JSON value by its kind; for a list the
\* numbers of dict and of other items; for a dict the kind and length of the
\* value under 'insights' ("missing" when the key is absent); "invalid" when
\* json.loads raises JSONDecodeError; "nomatch" when the pattern finds nothing
Json(kind, dicts, others, insights) ==
    [kind |-> kind, dicts |-> dicts, others |-> others, insights |-> insights]

JsonLists == {Json("list", d, o, "none") : d \in 0..1, o \in 0..1}

JsonDicts ==
    {Json("dict", d, 0, k) : d \in 0..1, k \in {"list"}}
    \cup {Json("dict", 0, 0, k) : k \in {"missing", "null", "number", "string", "dict"}}

JsonScalars == {Json(k, 0, 0, "none") : k \in {"null", "number", "string"}}

Invalid == Json("invalid", 0, 0, "none")

NoMatch == Json("nomatch", 0, 0, "none")

\* a response text, by what each layer of _parse_insights_json reads of it:
\* the whole text through json.loads, the text matched by each of the three
\* patterns through json.loads, the number of insights the key:value lines
\* give, and the keyword groups of _create_fallback_insights it contains
ResponseTexts ==
    [direct : JsonLists \cup JsonDicts \cup JsonScalars,
     fenced_json : {NoMatch}, fenced : {NoMatch}, array : {NoMatch},
     key_values : {0}, budget : {FALSE}, urgent : {FALSE}, action : {FALSE}]
    \cup
    [direct : {Invalid},
     fenced_json : {NoMatch, Invalid, Json("list", 1, 1, "none"), Json("list", 0, 1, "none")},
     fenced : {NoMatch, Invalid, Json("list", 1, 0, "none"), Json("dict", 0, 0, "missing")},
     array : {NoMatch, Invalid, Json("list", 1, 0, "none")},
     key_values : 0..1, budget : BOOLEAN, urgent : BOOLEAN, action : BOOLEAN]

\* what a call gives back: the kind of the value returned and its length, or
\* the exception that left the call
Returned(kind, len, layer) == [raised |-> "none", kind |-> kind, len |-> len, layer |-> layer]

Raised(exception, layer) == [raised |-> exception, kind |-> "none", len |-> 0, layer |-> layer]

NotParsed == [raised |-> "none", kind |-> "not called", len |-> 0, layer |-> "none"]

\* len(x): defined on lists, strings and dicts
has_len(kind) == kind \in {"list", "string", "dict"}

\* _create_fallback_insights: one stub per keyword group
create_fallback_insights(text) ==
    Returned("list",
             (IF text.budget THEN 1 ELSE 0) + (IF text.urgent THEN 1 ELSE 0)
                + (IF text.action THEN 1 ELSE 0),
             "stubs")

\* _parse_insights_from_text: the key:value insights, else the stubs
parse_insights_from_text(text) ==
    IF text.key_values > 0 THEN Returned("list", text.key_values, "key_values")
    ELSE create_fallback_insights(text)

\* one turn of the pattern loop: the dict items of a non-empty list, when
\* there is one
pattern_insights(value) ==
    IF value.kind = "list" /\ value.dicts + value.others > 0 /\ value.dicts > 0
    THEN value.dicts ELSE 0

\* _parse_insights_json
parse_insights_json(text) ==
    IF text.direct.kind = "list"
    THEN Returned("list", text.direct.dicts + text.direct.others, "direct")
    ELSE IF text.direct.kind = "dict" /\ text.direct.insights # "missing"
    THEN IF has_len(text.direct.insights)
         THEN Returned(text.direct.insights, text.direct.dicts, "wrapper")
         ELSE Raised("TypeError", "wrapper")
    ELSE IF text.direct.kind # "invalid" THEN Returned("list", 0, "direct")
    ELSE IF pattern_insights(text.fenced_json) > 0
    THEN Returned("list", pattern_insights(text.fenced_json), "fenced_json")
    ELSE IF pattern_insights(text.fenced) > 0
    THEN Returned("list", pattern_insights(text.fenced), "fenced")
    ELSE IF pattern_insights(text.array) > 0
    THEN Returned("list", pattern_insights(text.array), "array")
    ELSE parse_insights_from_text(text)

\* no response at hand
NoResponse == ""

\* -------------------------------------------------- insight pipeline: state
Documents == {"d1", "d2"}

NotExtracted == [ran |-> FALSE, insights |-> <<>>]

\* the watcher at rest, for the specifications of the insight pipeline
WatcherIdle ==
    /\ storage = EmptyMap /\ now = 1 /\ dry_run = FALSE /\ backend = "db"
    /\ known_files = EmptyMap /\ last_check_time = Epoch
    /\ saved = [last_check_time |-> Epoch, known_files |-> EmptyMap]
    /\ store = [id \in Ids |-> <<>>]
    /\ pc = "idle" /\ batch = <<>> /\ last = NoCall /\ pending = {}
    /\ listed = NoListing

\* no task in flight, no batch summary
NoTasks == <<>>

NoSummary == [total |-> 0, successful |-> 0, skipped |-> 0, failed |-> 0]

\* the pipeline at rest: nothing extracted, nothing stored, nothing in flight
InsightsIdle ==
    /\ raw_insights = <<>>
    /\ filtered_insights = NotExtracted
    /\ response_text = NoResponse
    /\ parsed = NotParsed
    /\ document_insights = [d \in Documents |-> <<>>]
    /\ tasks = NoTasks
    /\ batch_summary = NoSummary
    /\ runs = 0

\* the two definitions of the document_insights table the repository ships:
\* migrate_database_schema.py has CHECK constraints on confidence_score and
\* severity, check_database_schema.py has none
Schemas == {"migrate_database_schema", "check_database_schema"}

\* whether an insert of the row is accepted by the table
accepts(schema, insight) ==
    schema = "migrate_database_schema"
        => /\ insight.confidence_score \in 0..100
           /\ insight.severity \in BusinessSeverity

\* save_insights_to_database: one insert per insight, a rejected insert is
\* logged and skipped; the rows carry the run that wrote them
Rows(run, insights, schema) ==
    LET accepted == SelectSeq(insights, LAMBDA x : accepts(schema, x))
    IN  [i \in 1..Len(accepted) |-> [run |-> run, insight |-> accepted[i]]]

\* one document's extraction on a given response: the model has answered
InitExtraction ==
    /\ WatcherIdle
    /\ ChunkingIdle
    /\ raw_insights \in Responses
    /\ filtered_insights = NotExtracted
    /\ response_text = NoResponse
    /\ parsed = NotParsed
    /\ document_insights = [d \in Documents |-> <<>>]
    /\ tasks = NoTasks
    /\ batch_summary = NoSummary
    /\ runs = 0

\* extract_business_insights from the conversion loop on
ExtractBusinessInsights ==
    /\ ~filtered_insights.ran
    /\ filtered_insights' =
          [ran |-> TRUE, insights |-> extract_business_insights(raw_insights)]
    /\ UNCHANGED <<raw_insights, response_text, parsed, document_insights, tasks,
                   batch_summary, runs>>
    /\ UNCHANGED wvars
    /\ UNCHANGED cvars
    /\ UNCHANGED listed

\* what one insert can do: return the new row, return no row, or raise
InsertOutcomes == {"row", "no_row", "raises"}

\* the result of one insert given what the database does with it: a row the
\* table's constraints reject raises whatever else happens
insert_result(schema, insight, fault) ==
    IF accepts(schema, insight) THEN fault ELSE "raises"

\* what save_insights_to_database has done so far
SaveResult(table, ids, attempted) ==
    [table |-> table, ids |-> ids, attempted |-> attempted]

\* variant of the loop that gives up at the first insert that fails
RECURSIVE save_stops_at_failure(_, _, _, _, _)
save_stops_at_failure(table, run, insights, schema, faults) ==
    IF insights = <<>> THEN SaveResult(table, <<>>, 0)
    ELSE IF insert_result(schema, Head(insights), Head(faults)) # "row"
    THEN SaveResult(table, <<>>, 1)
    ELSE LET written == Append(table, [run |-> run, insight |-> Head(insights)])
             rest    == save_stops_at_failure(written, run, Tail(insights),
                                              schema, Tail(faults))
         IN  SaveResult(rest.table, <<Len(written)>> \o rest.ids,
                        rest.attempted + 1)

\* save_insights_to_database: one insert per insight inside its own try; the
\* id of a returned row (its place in the table) is appended to saved_ids, a
\* missing row is a warning, an exception is logged, and the loop continues
RECURSIVE save_insights_to_database(_, _, _, _, _)
save_insights_to_database(table, run, insights, schema, faults) ==
    IF insights = <<>> THEN SaveResult(table, <<>>, 0)
    ELSE LET ok      == insert_result(schema, Head(insights), Head(faults)) = "row"
             written == IF ok
                        THEN Append(table, [run |-> run, insight |-> Head(insights)])
                        ELSE table
             rest    == save_insights_to_database(written, run, Tail(insights),
                                                  schema, Tail(faults))
         IN  SaveResult(rest.table,
                        (IF ok THEN <<Len(written)>> ELSE <<>>) \o rest.ids,
                        rest.attempted + 1)

\* observation: the records whose insert returned a row
succeeded(insights, schema, faults) ==
    {i \in 1..Len(insights) : insert_result(schema, insights[i], faults[i]) = "row"}

\* save_insights_to_database on what was extracted, the database answering
\* each insert with one of the given outcomes
SaveInsights(outcomes) ==
    /\ filtered_insights.ran
    /\ runs = 0
    /\ runs' = 1
    /\ \E schema \in Schemas :
       \E faults \in [1..Len(filtered_insights.insights) -> outcomes] :
          LET result == save_insights_to_database(document_insights["d1"], runs',
                           filtered_insights.insights, schema, faults)
          IN  /\ document_insights' = [document_insights EXCEPT !["d1"] = result.table]
              /\ saved_ids' = [ids |-> result.ids, attempted |-> result.attempted,
                               succeeded |-> succeeded(filtered_insights.insights,
                                                       schema, faults)]
    /\ UNCHANGED <<raw_insights, filtered_insights, response_text, parsed, tasks,
                   batch_summary>>
    /\ UNCHANGED wvars
    /\ UNCHANGED <<document, chunks, semaphore>>
    /\ UNCHANGED listed

\* process_document: the save with a database that is up, where only the
\* table's constraints make an insert fail
SaveExtracted == SaveInsights({"row"})

\* the save with a database that may fail any insert
SaveWithFaults == SaveInsights(InsertOutcomes)

NextExtraction == ExtractBusinessInsights \/ SaveExtracted

SpecExtraction == InitExtraction /\ [][NextExtraction]_vars

\* candidates for the duplicate test: two titles and two descriptions without
\* a common word, three confidences, everything else sound
DedupCandidates ==
    {RawInsight("risk", title, description, confidence, "critical", Absent, FALSE, FALSE) :
        title \in {Text(28, {1, 2, 3, 4}, FALSE), Text(32, {5, 6, 7, 8, 9}, FALSE)},
        description \in {Text(31, {21, 22, 23, 24}, FALSE),
                         Text(29, {26, 27, 28, 29, 30}, FALSE)},
        confidence \in {Number(70), Number(80), Number(90)}}

\* the responses of three such candidates in any order
DedupResponses == [1..3 -> DedupCandidates]

InitDedup ==
    /\ WatcherIdle
    /\ ChunkingIdle
    /\ raw_insights \in DedupResponses
    /\ filtered_insights = NotExtracted
    /\ response_text = NoResponse
    /\ parsed = NotParsed
    /\ document_insights = [d \in Documents |-> <<>>]
    /\ tasks = NoTasks
    /\ batch_summary = NoSummary
    /\ runs = 0

NextDedup == ExtractBusinessInsights

SpecDedup == InitDedup /\ [][NextDedup]_vars

\* the responses of the save's specification: one candidate with every raw
\* confidence and severity, followed by up to MaxCandidates - 1 sound ones
SaveResponses ==
    {<<a>> \o Fillers(k) :
        a \in {c \in FirstCandidates :
                  /\ c.insight_type = "risk"
                  /\ c.title = Text(28, {1, 2, 3, 4}, FALSE)
                  /\ c.description = Text(31, {21, 22, 23, 24}, FALSE)
                  /\ c.financial_impact = Absent
                  /\ ~c.urgency_indicators /\ ~c.critical_path_impact},
        k \in 0..(MaxCandidates - 1)}

InitSave ==
    /\ WatcherIdle
    /\ ChunkingIdle
    /\ raw_insights \in SaveResponses
    /\ filtered_insights = NotExtracted
    /\ response_text = NoResponse
    /\ parsed = NotParsed
    /\ document_insights = [d \in Documents |-> <<>>]
    /\ tasks = NoTasks
    /\ batch_summary = NoSummary
    /\ runs = 0

NextSave == ExtractBusinessInsights \/ SaveWithFaults

SpecSave == InitSave /\ [][NextSave]_vars

\* ------------------------------------------- insight pipeline: the processor
\* min_content_length of EnhancedInsightsProcessor (MIN_INSIGHT_CONTENT_LENGTH)
min_content_length == 200

\* the shortest content extract_business_insights works on
min_engine_content == 50

\* the most pipeline runs one behaviour starts
MaxRuns == 2

Tasks == 1..2

\* the documents table: d1 is long enough for the processor, d2 only for the
\* engine
ContentLength(doc) == IF doc = "d1" THEN 250 ELSE 120

\* the document dictionaries a batch may hold: well formed, 'content' present
\* but None, or without the 'id' key
Shapes == {"ok", "content_none", "no_id"}

\* a coroutine of the pipeline: the operation and its document, where it
\* stands (idle, awaiting the model, done), the run number its rows carry,
\* how many rows the document had at the call, how the stage-2 call ended,
\* whether the engine was reached and with how many prior rows, how many rows
\* it saved, and what it returned
Task(op, doc, shape, in_batch, run) ==
    [op |-> op, doc |-> doc, shape |-> shape, in_batch |-> in_batch, run |-> run,
     pc |-> "awaiting", before |-> 0, llm |-> "none", extracted |-> FALSE, prior |-> 0,
     saved |-> 0, outcome |-> "none"]

IdleTask ==
    [op |-> "none", doc |-> "d1", shape |-> "ok", in_batch |-> FALSE, run |-> 0,
     pc |-> "idle", before |-> 0, llm |-> "none", extracted |-> FALSE, prior |-> 0,
     saved |-> 0, outcome |-> "none"]

Done(task, outcome) == [task EXCEPT !.pc = "done", !.outcome = outcome]

\* _check_existing_insights: the rows of the document, [] when the query fails
check_existing_insights(table, doc, check_ok) ==
    IF check_ok THEN table[doc] ELSE <<>>

\* _delete_existing_insights: a failed delete is logged and swallowed
delete_existing_insights(table, doc, delete_ok) ==
    IF delete_ok THEN [table EXCEPT ![doc] = <<>>] ELSE table

\* BusinessInsightsEngine.process_document up to the first call of the model
begin_process_document(task, table) ==
    IF ContentLength(task.doc) < min_engine_content
    THEN Done([task EXCEPT !.extracted = TRUE, !.prior = Len(table[task.doc])],
              "success")
    ELSE [task EXCEPT !.extracted = TRUE, !.prior = Len(table[task.doc])]

\* process_document_insights up to the first call of the model
begin_process_document_insights(task, table, check_ok) ==
    IF task.shape = "content_none" THEN Done(task, "failed")
    ELSE IF ContentLength(task.doc) < min_content_length THEN Done(task, "skipped")
    ELSE IF check_existing_insights(table, task.doc, check_ok) # <<>>
    THEN Done(task, "skipped")
    ELSE begin_process_document(task, table)

\* process_single_doc: doc['id'] is read outside every handler
begin_process_single_doc(task, table, check_ok) ==
    IF task.shape = "no_id" THEN Done(task, "exception")
    ELSE begin_process_document_insights(task, table, check_ok)

\* trigger_insights_for_document up to the first call of the model: the task
\* and the table it leaves
begin_trigger(called, table, found, check_ok, delete_ok) ==
    LET task == [called EXCEPT !.before = Len(table[called.doc])]
    IN  IF ~found THEN [task |-> Done(task, "failed"), table |-> table]
        ELSE IF task.op = "trigger"
        THEN IF check_existing_insights(table, task.doc, check_ok) # <<>>
             THEN [task |-> Done(task, "skipped"), table |-> table]
             ELSE [task |-> begin_process_document_insights(task, table, check_ok),
                   table |-> table]
        ELSE LET deleted == delete_existing_insights(table, task.doc, delete_ok)
             IN  [task |-> begin_process_document_insights(task, deleted, check_ok),
                  table |-> deleted]

\* the answers of the stage-2 call in the processor's model: none, one sound
\* candidate, more sound candidates than the cap
Answers == {<<>>, Fillers(1), Fillers(MaxCandidates)}

\* the rest of process_document once the model has answered or failed: the
\* rows to insert (a failed call gives no candidates; failed inserts are
\* skipped)
new_rows(task, llm_ok, answer, schema, insert_ok) ==
    LET raws == IF llm_ok THEN answer ELSE <<>>
        insights == extract_business_insights(raws)
    IN  IF insert_ok THEN Rows(task.run, insights, schema) ELSE <<>>

\* process_batch_insights without an accumulator for the exceptions gather
\* returns
result_class_drops_exceptions(outcome) ==
    CASE outcome = "success" -> "successful"
      [] outcome = "skipped" -> "skipped"
      [] outcome = "failed" -> "failed"
      [] OTHER -> "none"

\* the class process_batch_insights puts a task's result in
result_class(outcome) ==
    CASE outcome = "exception" -> "failed"
      [] outcome = "success" -> "successful"
      [] outcome = "skipped" -> "skipped"
      [] OTHER -> "failed"

\* the summary process_batch_insights compiles
compile_summary(ts) ==
    LET of(class) == Cardinality({t \in Tasks : result_class(ts[t].outcome) = class})
    IN  [total |-> Cardinality(Tasks), successful |-> of("successful"),
         skipped |-> of("skipped"), failed |-> of("failed")]

\* the processor and the engine at rest over an empty document_insights table
InitInsights ==
    /\ WatcherIdle
    /\ ChunkingIdle
    /\ raw_insights = <<>>
    /\ filtered_insights = NotExtracted
    /\ response_text = NoResponse
    /\ parsed = NotParsed
    /\ document_insights = [d \in Documents |-> <<>>]
    /\ tasks = [t \in Tasks |-> IdleTask]
    /\ batch_summary = NoSummary
    /\ runs = 0

\* BusinessInsightsEngine.process_document is called
StartProcessDocument(t, doc) ==
    /\ tasks[t].pc = "idle"
    /\ runs < MaxRuns
    /\ runs' = runs + 1
    /\ tasks' = [tasks EXCEPT ![t] =
                    begin_process_document(Task("process_document", doc, "ok", FALSE, runs'),
                                           document_insights)]
    /\ UNCHANGED <<raw_insights, filtered_insights, response_text, parsed,
                   document_insights, batch_summary>>
    /\ UNCHANGED wvars
    /\ UNCHANGED cvars
    /\ UNCHANGED listed

\* process_document_insights is called
StartProcessDocumentInsights(t, doc) ==
    /\ tasks[t].pc = "idle"
    /\ runs < MaxRuns
    /\ runs' = runs + 1
    /\ \E check_ok \in BOOLEAN :
          tasks' = [tasks EXCEPT ![t] =
                       begin_process_document_insights(
                           Task("process_document_insights", doc, "ok", FALSE, runs'),
                           document_insights, check_ok)]
    /\ UNCHANGED <<raw_insights, filtered_insights, response_text, parsed,
                   document_insights, batch_summary>>
    /\ UNCHANGED wvars
    /\ UNCHANGED cvars
    /\ UNCHANGED listed

\* trigger_insights_for_document is called, with or without force_reprocess
StartTrigger(t, doc, op) ==
    /\ tasks[t].pc = "idle"
    /\ runs < MaxRuns
    /\ runs' = runs + 1
    /\ \E found \in BOOLEAN, check_ok \in BOOLEAN, delete_ok \in BOOLEAN :
          LET r == begin_trigger(Task(op, doc, "ok", FALSE, runs'), document_insights,
                                 found, check_ok, delete_ok)
          IN  /\ tasks' = [tasks EXCEPT ![t] = r.task]
              /\ document_insights' = r.table
    /\ UNCHANGED <<raw_insights, filtered_insights, response_text, parsed, batch_summary>>
    /\ UNCHANGED wvars
    /\ UNCHANGED cvars
    /\ UNCHANGED listed

\* process_batch_insights is called on two documents: gather starts the two
\* coroutines, each runs to its first call of the model
StartBatch ==
    /\ \A t \in Tasks : tasks[t].pc = "idle"
    /\ runs + Cardinality(Tasks) <= MaxRuns
    /\ runs' = runs + Cardinality(Tasks)
    /\ \E docs \in [Tasks -> Documents], shapes \in [Tasks -> Shapes],
          check_ok \in [Tasks -> BOOLEAN] :
          tasks' = [t \in Tasks |->
                       begin_process_single_doc(
                           Task("process_document_insights", docs[t], shapes[t], TRUE,
                                runs + t),
                           document_insights, check_ok[t])]
    /\ batch_summary' = NoSummary
    /\ UNCHANGED <<raw_insights, filtered_insights, response_text, parsed,
                   document_insights>>
    /\ UNCHANGED wvars
    /\ UNCHANGED cvars
    /\ UNCHANGED listed

\* the model answers (or the call fails) and the coroutine runs to its end:
\* parse, convert, filter, save, return
Complete(t) ==
    /\ tasks[t].pc = "awaiting"
    /\ \E llm_ok \in BOOLEAN, answer \in Answers, schema \in Schemas, insert_ok \in BOOLEAN :
          LET rows == new_rows(tasks[t], llm_ok, answer, schema, insert_ok)
          IN  /\ document_insights' =
                    [document_insights EXCEPT ![tasks[t].doc] = @ \o rows]
              /\ tasks' = [tasks EXCEPT ![t] =
                              Done([@ EXCEPT !.llm = IF llm_ok THEN "answered" ELSE "failed",
                                             !.saved = Len(rows)],
                                   "success")]
    /\ UNCHANGED <<raw_insights, filtered_insights, response_text, parsed,
                   batch_summary, runs>>
    /\ UNCHANGED wvars
    /\ UNCHANGED cvars
    /\ UNCHANGED listed

\* gather has every result: process_batch_insights compiles its summary
CompileBatch ==
    /\ \A t \in Tasks : tasks[t].in_batch /\ tasks[t].pc = "done"
    /\ batch_summary = NoSummary
    /\ batch_summary' = compile_summary(tasks)
    /\ UNCHANGED <<raw_insights, filtered_insights, response_text, parsed,
                   document_insights, tasks, runs>>
    /\ UNCHANGED wvars
    /\ UNCHANGED cvars
    /\ UNCHANGED listed

\* a call returns to its caller
Return(t) ==
    /\ tasks[t].pc = "done"
    /\ ~tasks[t].in_batch
    /\ tasks' = [tasks EXCEPT ![t] = IdleTask]
    /\ UNCHANGED <<raw_insights, filtered_insights, response_text, parsed,
                   document_insights, batch_summary, runs>>
    /\ UNCHANGED wvars
    /\ UNCHANGED cvars
    /\ UNCHANGED listed

\* process_batch_insights returns its summary
ReturnBatch ==
    /\ \A t \in Tasks : tasks[t].in_batch /\ tasks[t].pc = "done"
    /\ batch_summary # NoSummary
    /\ tasks' = [t \in Tasks |-> IdleTask]
    /\ batch_summary' = NoSummary
    /\ UNCHANGED <<raw_insights, filtered_insights, response_text, parsed,
                   document_insights, runs>>
    /\ UNCHANGED wvars
    /\ UNCHANGED cvars
    /\ UNCHANGED listed

\* calls of the processor that do not force a reprocess
ProcessorStarts ==
    \E t \in Tasks, doc \in Documents :
        \/ StartProcessDocumentInsights(t, doc)
        \/ StartTrigger(t, doc, "trigger")

\* direct calls of the engine
EngineStarts == \E t \in Tasks, doc \in Documents : StartProcessDocument(t, doc)

ForcedStarts == \E t \in Tasks, doc \in Documents : StartTrigger(t, doc, "force_trigger")

Completions == \E t \in Tasks : Complete(t) \/ Return(t)

Batches == StartBatch \/ CompileBatch \/ ReturnBatch

NextInsights == ProcessorStarts \/ EngineStarts \/ ForcedStarts \/ Completions \/ Batches

SpecInsights == InitInsights /\ [][NextInsights]_vars

\* the processor alone, without forced reprocessing
NextProcessor == ProcessorStarts \/ Completions \/ Batches

SpecProcessor == InitInsights /\ [][NextProcessor]_vars

\* the parser on a given response text
InitParse ==
    /\ WatcherIdle
    /\ ChunkingIdle
    /\ response_text \in ResponseTexts
    /\ parsed = NotParsed
    /\ raw_insights = <<>>
    /\ filtered_insights = NotExtracted
    /\ document_insights = [d \in Documents |-> <<>>]
    /\ tasks = NoTasks
    /\ batch_summary = NoSummary
    /\ runs = 0

\* _parse_insights_json(response_text)
ParseInsightsJson ==
    /\ parsed = NotParsed
    /\ parsed' = parse_insights_json(response_text)
    /\ UNCHANGED <<raw_insights, filtered_insights, response_text, document_insights,
                   tasks, batch_summary, runs>>
    /\ UNCHANGED wvars
    /\ UNCHANGED cvars
    /\ UNCHANGED listed

NextParse == ParseInsightsJson

SpecParse == InitParse /\ [][NextParse]_vars

\* -------------------------------------------------------------------- Init
Init ==
    /\ storage = EmptyMap
    /\ now = 1
    /\ dry_run \in BOOLEAN
    /\ backend \in {"db", "file"}
    /\ known_files = EmptyMap
    /\ last_check_time = Epoch
    /\ saved = [last_check_time |-> Epoch, known_files |-> EmptyMap]
    /\ store = [id \in Ids |-> <<>>]
    /\ pc = "idle"
    /\ batch = <<>>
    /\ last = NoCall
    /\ pending = {}
    /\ listed = NoListing
    /\ InsightsIdle
    /\ ChunkingIdle

\* ---------------------------------------------------------- the environment
Tick ==
    /\ now < MaxTime
    /\ now' = now + 1
    /\ last' = NoCall
    /\ UNCHANGED <<storage, dry_run, backend, known_files, last_check_time,
                   saved, store, pc, batch, pending>>
    /\ UNCHANGED ivars
    /\ UNCHANGED cvars
    /\ UNCHANGED listed

\* an upload: a new object, new content, or a metadata-only touch
Upload(id, file) ==
    /\ storage' = Put(storage, id,
          [bytes |-> file.bytes, meta |-> file.meta,
           created_at |-> IF id \in DOMAIN storage THEN storage[id].created_at ELSE now,
           updated_at |-> now])
    /\ last' = NoCall
    /\ UNCHANGED <<now, dry_run, backend, known_files, last_check_time,
                   saved, store, pc, batch, pending>>
    /\ UNCHANGED ivars
    /\ UNCHANGED cvars
    /\ UNCHANGED listed

Uploads == \E id \in Ids, file \in Files : Upload(id, file)

Env == Tick \/ Uploads

\* uploads that do not fall between a listing and the end of its batch
QuietUploads == pc \notin {"watch_batch", "backfill", "single"} /\ Uploads

\* --------------------------------------------------- one process_file call
\* the call's effect on the watcher, the store and the observation
DoProcessFile(info, fault) ==
    LET o == process_file(info, fault, storage, dry_run, known_files, store)
    IN  /\ \A id \in Ids : Len(o.store[id]) <= MaxBatches
        /\ known_files' = o.known
        /\ store' = o.store
        /\ last' = Observe(info, o)

\* what that call returns
ResultOf(info, fault) ==
    process_file(info, fault, storage, dry_run, known_files, store).result

\* a direct call on a listed object (as the tests and library callers make)
CallProcessFile(id, fault) ==
    /\ pc = "idle"
    /\ id \in DOMAIN storage
    /\ DoProcessFile(file_info(storage, id), fault)
    /\ UNCHANGED <<storage, now, dry_run, backend, last_check_time, saved,
                   pc, batch, pending>>
    /\ UNCHANGED ivars
    /\ UNCHANGED cvars
    /\ UNCHANGED listed

\* a direct save_state call
CallSaveState ==
    /\ pc = "idle"
    /\ saved' = save_state(dry_run, backend, saved, last_check_time, known_files)
    /\ last' = NoCall
    /\ UNCHANGED <<storage, now, dry_run, backend, known_files,
                   last_check_time, store, pc, batch, pending>>
    /\ UNCHANGED ivars
    /\ UNCHANGED cvars
    /\ UNCHANGED listed

\* the process ends (the mode returned, or a crash) and a new watcher is
\* constructed: load_config reads the persisted state
Restart ==
    /\ known_files' = loaded_known_files(backend, saved)
    /\ last_check_time' = saved.last_check_time
    /\ pc' = "idle"
    /\ batch' = <<>>
    /\ last' = NoCall
    /\ pending' = {}
    /\ UNCHANGED <<storage, now, dry_run, backend, saved, store>>
    /\ UNCHANGED ivars
    /\ UNCHANGED cvars
    /\ UNCHANGED listed

\* ------------------------------------------------------------ watch mode
StartWatch ==
    /\ pc = "idle"
    /\ pc' = "watch_top"
    /\ pending' = {}
    /\ last' = NoCall
    /\ UNCHANGED <<storage, now, dry_run, backend,
                   known_files, last_check_time, saved, store, batch>>
    /\ UNCHANGED ivars
    /\ UNCHANGED cvars
    /\ UNCHANGED listed

\* top of the loop: get_changes and the per-cycle cap
WatchGetChanges(listing_ok, max_files_per_run) ==
    /\ pc = "watch_top"
    /\ LET changed_files == get_changes(storage, last_check_time, listing_ok)
       IN  /\ batch' = Entries(files_to_process(changed_files, max_files_per_run))
           /\ pending' = IdsOf(changed_files)
    /\ pc' = "watch_batch"
    /\ last' = NoCall
    /\ UNCHANGED <<storage, now, dry_run, backend,
                   known_files, last_check_time, saved, store>>
    /\ UNCHANGED ivars
    /\ UNCHANGED cvars
    /\ listed' = storage

\* where the loop stands after process_file ended with result res: an exception
\* or an interrupt leaves the loop through its handlers, anything else goes on
after_watch_call(res) ==
    IF res = "raised" THEN "error"
    ELSE IF res = "interrupted" THEN "interrupted"
    ELSE "watch_batch"

\* variant of the KeyboardInterrupt handler that persists nothing
interrupt_state_lost(dry, be, sv, lct, known) == sv

\* what the KeyboardInterrupt handler persists
interrupt_state(dry, be, sv, lct, known) == save_state(dry, be, sv, lct, known)

\* one object of the batch; both handlers call save_state before leaving
WatchProcessFile(fault) ==
    /\ pc = "watch_batch"
    /\ batch # <<>>
    /\ LET info == Head(batch)
           res  == ResultOf(info, fault)
       IN  /\ DoProcessFile(info, fault)
           /\ pc' = after_watch_call(res)
           /\ IF pc' # "watch_batch"
              THEN /\ saved' = IF res = "interrupted"
                                 THEN interrupt_state(dry_run, backend, saved,
                                                      last_check_time, known_files')
                                 ELSE save_state(dry_run, backend, saved,
                                                 last_check_time, known_files')
                   /\ batch' = <<>>
                   /\ pending' = pending
              ELSE /\ saved' = saved
                   /\ batch' = Tail(batch)
                   /\ pending' = IF res = "True" THEN pending \ {info.id} ELSE pending
    /\ UNCHANGED <<storage, now, dry_run, backend, last_check_time>>
    /\ UNCHANGED ivars
    /\ UNCHANGED cvars
    /\ listed' = IF pc' = "watch_batch" THEN listed ELSE NoListing

\* the watermark the cycle leaves behind
next_check_time(lct, t) == t

\* end of the cycle: the watermark moves to the current time, the state is saved
WatchEndCycle ==
    /\ pc = "watch_batch"
    /\ batch = <<>>
    /\ last_check_time' = next_check_time(last_check_time, now)
    /\ saved' = save_state(dry_run, backend, saved, last_check_time', known_files)
    /\ pc' = "watch_sleep"
    /\ last' = NoCall
    /\ UNCHANGED <<storage, now, dry_run, backend,
                   known_files, store, batch, pending>>
    /\ UNCHANGED ivars
    /\ UNCHANGED cvars
    /\ listed' = NoListing

\* time.sleep(interval_seconds) returns
WatchWake ==
    /\ pc = "watch_sleep"
    /\ pc' = "watch_top"
    /\ last' = NoCall
    /\ UNCHANGED <<storage, now, dry_run, backend, known_files,
                   last_check_time, saved, store, batch, pending>>
    /\ UNCHANGED ivars
    /\ UNCHANGED cvars
    /\ UNCHANGED listed

\* KeyboardInterrupt outside process_file: during detection, between objects,
\* during the sleep
WatchInterrupt ==
    /\ pc \in {"watch_top", "watch_batch", "watch_sleep"}
    /\ saved' = interrupt_state(dry_run, backend, saved, last_check_time, known_files)
    /\ pc' = "interrupted"
    /\ batch' = <<>>
    /\ last' = NoCall
    /\ UNCHANGED <<storage, now, dry_run, backend,
                   known_files, last_check_time, store, pending>>
    /\ UNCHANGED ivars
    /\ UNCHANGED cvars
    /\ listed' = NoListing

\* --------------------------------------------------------------- backfill
\* backfill(max_files): capped = FALSE stands for max_files = None
StartBackfill(capped, n, listing_ok) ==
    /\ pc = "idle"
    /\ batch' = Entries(backfill_files(list_all(storage, listing_ok), capped, n))
    /\ pc' = "backfill"
    /\ last' = NoCall
    /\ UNCHANGED <<storage, now, dry_run, backend,
                   known_files, last_check_time, saved, store, pending>>
    /\ UNCHANGED ivars
    /\ UNCHANGED cvars
    /\ UNCHANGED listed

\* where backfill (and the single pass) stands after a process_file call: no
\* handler, an exception leaves the method
after_pass_call(res, here) == IF res = "raised" THEN "error" ELSE here

BackfillProcessFile(fault) ==
    /\ pc = "backfill"
    /\ batch # <<>>
    /\ DoProcessFile(Head(batch), fault)
    /\ pc' = after_pass_call(ResultOf(Head(batch), fault), pc)
    /\ batch' = IF pc' = "error" THEN <<>> ELSE Tail(batch)
    /\ UNCHANGED <<storage, now, dry_run, backend, last_check_time, saved, pending>>
    /\ UNCHANGED ivars
    /\ UNCHANGED cvars
    /\ UNCHANGED listed

\* after the loop: save_state
BackfillEnd ==
    /\ pc = "backfill"
    /\ batch = <<>>
    /\ saved' = save_state(dry_run, backend, saved, last_check_time, known_files)
    /\ pc' = "done"
    /\ last' = NoCall
    /\ UNCHANGED <<storage, now, dry_run, backend,
                   known_files, last_check_time, store, batch, pending>>
    /\ UNCHANGED ivars
    /\ UNCHANGED cvars
    /\ UNCHANGED listed

\* ------------------------------------------------------------ single mode
\* main.py --mode single: one get_changes pass, no cap
StartSingle(listing_ok) ==
    /\ pc = "idle"
    /\ batch' = Entries(get_changes(storage, last_check_time, listing_ok))
    /\ pc' = "single"
    /\ last' = NoCall
    /\ UNCHANGED <<storage, now, dry_run, backend,
                   known_files, last_check_time, saved, store, pending>>
    /\ UNCHANGED ivars
    /\ UNCHANGED cvars
    /\ UNCHANGED listed

SingleProcessFile(fault) ==
    /\ pc = "single"
    /\ batch # <<>>
    /\ DoProcessFile(Head(batch), fault)
    /\ pc' = after_pass_call(ResultOf(Head(batch), fault), pc)
    /\ batch' = IF pc' = "error" THEN <<>> ELSE Tail(batch)
    /\ UNCHANGED <<storage, now, dry_run, backend, last_check_time, saved, pending>>
    /\ UNCHANGED ivars
    /\ UNCHANGED cvars
    /\ UNCHANGED listed

SingleEnd ==
    /\ pc = "single"
    /\ batch = <<>>
    /\ saved' = save_state(dry_run, backend, saved, last_check_time, known_files)
    /\ pc' = "done"
    /\ last' = NoCall
    /\ UNCHANGED <<storage, now, dry_run, backend,
                   known_files, last_check_time, store, batch, pending>>
    /\ UNCHANGED ivars
    /\ UNCHANGED cvars
    /\ UNCHANGED listed

\* ----------------------------------------------------------- specifications
Calls ==
    \/ \E id \in Ids, fault \in Faults : CallProcessFile(id, fault)
    \/ CallSaveState

Watch ==
    \/ StartWatch
    \/ \E listing_ok \in BOOLEAN, max_files_per_run \in 1..MaxCap :
          WatchGetChanges(listing_ok, max_files_per_run)
    \/ \E fault \in Faults \cup Interrupts : WatchProcessFile(fault)
    \/ WatchEndCycle
    \/ WatchWake
    \/ WatchInterrupt

Backfill ==
    \/ \E capped \in BOOLEAN, n \in 0..MaxCap, listing_ok \in BOOLEAN :
          StartBackfill(capped, n, listing_ok)
    \/ \E fault \in Faults : BackfillProcessFile(fault)
    \/ BackfillEnd

Single ==
    \/ \E listing_ok \in BOOLEAN : StartSingle(listing_ok)
    \/ \E fault \in Faults : SingleProcessFile(fault)
    \/ SingleEnd

\* one watcher object: direct calls while idle, then one run of a mode
Next == Tick \/ QuietUploads \/ Calls \/ Watch \/ Backfill \/ Single

Spec == Init /\ [][Next]_vars

\* direct calls that meet no fault, as a caller makes before starting a mode
PlainCalls ==
    \/ \E id \in Ids : CallProcessFile(id, "none")
    \/ CallSaveState

\* one watcher object: plain direct calls while idle, then one run of a mode
NextModes == Tick \/ QuietUploads \/ PlainCalls \/ Watch \/ Backfill \/ Single

SpecModes == Init /\ [][NextModes]_vars

\* direct process_file / save_state calls on one watcher object
NextCalls == Env \/ Calls

SpecCalls == Init /\ [][NextCalls]_vars

\* the same with restarts of the watcher
NextRestarts == Uploads \/ Calls \/ Restart

SpecRestarts == Init /\ [][NextRestarts]_vars

\* one run of watch mode
NextWatch == Tick \/ QuietUploads \/ Watch

SpecWatch == Init /\ [][NextWatch]_vars

\* watch mode with uploads at any moment, also while a batch is processed
NextRace == Tick \/ Uploads \/ Watch

SpecRace == Init /\ [][NextRace]_vars

\* backfill runs, one process after the other
NextBackfill == QuietUploads \/ Backfill \/ Restart

SpecBackfill == Init /\ [][NextBackfill]_vars

\* ------------------------------------------------------------ text pipeline
\* the most lines a text of the model has
MaxLines == 4

\* a line of a text by what the patterns of text_processor.py make of it and by
\* its length in characters:
\*   "blank"       the empty line
\*   "speaker"     "J: ..." with a speaker label
\*   "unlabelled"  "[ ] Buy ..." : brackets with nothing but a space in them
\*   "header"      "# ..." : a markdown header
\*   "chatty"      a sentence with a conversational marker
\*   "plain"       a sentence none of the patterns matches
\* all but the header end with a full stop and hold no capital letter after
\* their first word, so that no pattern matches across a line end
Line(kind, speaker, len) == [kind |-> kind, speaker |-> speaker, len |-> len]

Blank == Line("blank", "", 0)

LineAlphabet ==
    {Blank,
     Line("speaker", "J", 30), Line("speaker", "K", 120),
     Line("unlabelled", "", 15),
     Line("header", "", 10),
     Line("chatty", "", 40),
     Line("plain", "", 20), Line("plain", "", 110)}

Texts == UNION {[1..n -> LineAlphabet] : n \in 1..MaxLines}

\* file names without and with one of the transcript_keywords
FileNames == {"notes.txt", "meeting_notes.txt"}

\* the adaptive_chunking configurations of the model
Configs ==
    [max_chunk_size : {100}, min_chunk_size : {30}, speaker_overlap : {0, 1}]

RECURSIVE SumOver(_, _, _)
SumOver(f(_), a, b) == IF a > b THEN 0 ELSE f(a) + SumOver(f, a + 1, b)

\* len() of lines a..b of the text joined by newlines
span_len(lines, a, b) ==
    LET len(i) == lines[i].len IN SumOver(len, a, b) + (b - a)

\* len(text)
text_len(lines) == span_len(lines, 1, Len(lines))

\* the lines with line.strip() non-empty
non_blank(lines) == {i \in 1..Len(lines) : lines[i].kind # "blank"}

\* len(text.split()) of a line
word_count(line) ==
    CASE line.kind = "blank" -> 0
      [] line.kind = "unlabelled" -> 4
      [] line.kind = "header" -> 3
      [] OTHER -> 6

\* _detect_meeting_transcript: a keyword in the file name, or more than 20% of
\* the non-blank lines matched by the speaker_patterns ("J: " by the second,
\* "[ ] B" by the third)
has_transcript_keyword(file_name) == file_name = "meeting_notes.txt"

detect_meeting_transcript(lines, file_name) ==
    LET speaker_matches ==
            Cardinality({i \in 1..Len(lines) :
                            lines[i].kind \in {"speaker", "unlabelled"}})
        total_lines == Cardinality(non_blank(lines))
    IN  \/ has_transcript_keyword(file_name)
        \/ total_lines > 0 /\ 5 * speaker_matches > total_lines

\* _detect_structured_document: more than 15% of the non-blank lines matched
\* by the structure_patterns
detect_structured_document(lines) ==
    LET structure_matches ==
            Cardinality({i \in 1..Len(lines) : lines[i].kind = "header"})
        total_lines == Cardinality(non_blank(lines))
    IN  total_lines > 0 /\ 100 * structure_matches > 15 * total_lines

\* _detect_conversational_content: more than 5% of the words are matches of
\* the conversation_patterns
detect_conversational_content(lines) ==
    LET conv_matches ==
            Cardinality({i \in 1..Len(lines) : lines[i].kind = "chatty"})
        words(i) == word_count(lines[i])
        count == SumOver(words, 1, Len(lines))
    IN  count > 0 /\ 20 * conv_matches > count

\* a chunk: its type, the pieces of the input it holds in the order they stand
\* in its content (lines, turns, paragraphs, sentences or windows, numbered
\* from 1 in input order), the pieces prepended as context or overlap, the
\* length of the content without them, and the speaker fields
Chunk(type, units, context, size, turn_range, has_context) ==
    [chunk_type |-> type, units |-> units, context |-> context, size |-> size,
     turn_range |-> turn_range, has_context |-> has_context]

NoRange == <<>>

\* chunk_text: windows of chunk_size characters
chunk_text(length, chunk_size) ==
    LET n == (length + chunk_size - 1) \div chunk_size
    IN  [k \in 1..n |->
            IF k * chunk_size <= length THEN chunk_size
            ELSE length - (k - 1) * chunk_size]

\* the length of the text a line contributes to a turn: what follows the label
label_len(line) ==
    CASE line.kind = "speaker" -> Len(line.speaker) + 2
      [] line.kind = "unlabelled" -> 4
      [] OTHER -> 0

\* a speaker turn: the lines it was built from and len(' '.join(current_text))
Turn(speaker, first, final, text) ==
    [speaker |-> speaker, first |-> first, final |-> final, text |-> text]

\* the turn extraction loop of chunk_by_speaker from line i on; current_speaker
\* "" stands for None and for the empty label, which Python treats alike
RECURSIVE extract_turns(_, _, _, _, _)
extract_turns(lines, i, turns, current_speaker, current) ==
    LET closed == IF current_speaker # "" /\ current.first > 0
                  THEN Append(turns, Turn(current_speaker, current.first,
                                          current.final, current.text))
                  ELSE turns
    IN  IF i > Len(lines) THEN closed
        ELSE LET line == lines[i]
                 text == line.len - label_len(line)
             IN  IF line.kind = "blank"
                 THEN extract_turns(lines, i + 1, turns, current_speaker, current)
                 ELSE IF line.kind \in {"speaker", "unlabelled"}
                 THEN extract_turns(lines, i + 1, closed, line.speaker,
                                    [first |-> i, final |-> i, text |-> text])
                 ELSE IF current.first > 0
                 THEN extract_turns(lines, i + 1, turns, current_speaker,
                                    [current EXCEPT !.final = i,
                                                    !.text = @ + 1 + text])
                 ELSE extract_turns(lines, i + 1, turns,
                                    IF current_speaker = ""
                                    THEN "Unknown Speaker" ELSE current_speaker,
                                    [first |-> i, final |-> i, text |-> text])

speaker_turns(lines) ==
    extract_turns(lines, 1, <<>>, "", [first |-> 0, final |-> 0, text |-> 0])

\* len(f"{speaker}: {text}")
turn_size(turn) == Len(turn.speaker) + 2 + turn.text

\* the context turns of a chunk that starts at turn start_turn (0-based), by
\* their place in turns (1-based)
context_turns(start_turn, speaker_overlap) ==
    IF speaker_overlap > 0 /\ start_turn > 0
    THEN LET context_start == IF start_turn - speaker_overlap > 0
                              THEN start_turn - speaker_overlap ELSE 0
         IN  [j \in 1..(start_turn - context_start) |-> context_start + j]
    ELSE <<>>

\* the chunk of turns start_turn .. final_turn (0-based, as in turn_range)
speaker_chunk(turns, start_turn, final_turn, speaker_overlap) ==
    LET size(k) == turn_size(turns[k])
        context == context_turns(start_turn, speaker_overlap)
    IN  Chunk("speaker_based",
              [k \in 1..(final_turn - start_turn + 1) |-> start_turn + k],
              context,
              SumOver(size, start_turn + 1, final_turn + 1)
                  + (final_turn - start_turn),
              <<start_turn, final_turn>>,
              Len(context) > 0)

\* variant that starts the new chunk one turn late
RECURSIVE speaker_loop_late(_, _, _, _, _, _, _)
speaker_loop_late(turns, i, max_chunk_size, speaker_overlap, emitted, start_turn, current_size) ==
    IF i >= Len(turns)
    THEN IF start_turn <= Len(turns) - 1
         THEN Append(emitted, speaker_chunk(turns, start_turn, Len(turns) - 1,
                                           speaker_overlap))
         ELSE emitted
    ELSE IF current_size + turn_size(turns[i + 1]) > max_chunk_size /\ i > start_turn
    THEN speaker_loop_late(turns, i + 1, max_chunk_size, speaker_overlap,
             Append(emitted, speaker_chunk(turns, start_turn, i, speaker_overlap)),
             i + 1, 0)
    ELSE speaker_loop_late(turns, i + 1, max_chunk_size, speaker_overlap, emitted,
                           start_turn, current_size + turn_size(turns[i + 1]) + 1)

\* the chunking loop of chunk_by_speaker at turn i (0-based): a turn that does
\* not fit closes the chunk before it, unless that chunk is still empty
RECURSIVE speaker_loop(_, _, _, _, _, _, _)
speaker_loop(turns, i, max_chunk_size, speaker_overlap, emitted, start_turn, current_size) ==
    IF i >= Len(turns)
    THEN IF start_turn <= Len(turns) - 1
         THEN Append(emitted, speaker_chunk(turns, start_turn, Len(turns) - 1,
                                           speaker_overlap))
         ELSE emitted
    ELSE IF current_size + turn_size(turns[i + 1]) > max_chunk_size /\ i > start_turn
    THEN speaker_loop(turns, i + 1, max_chunk_size, speaker_overlap,
             Append(emitted, speaker_chunk(turns, start_turn, i - 1, speaker_overlap)),
             i, turn_size(turns[i + 1]) + 1)
    ELSE speaker_loop(turns, i + 1, max_chunk_size, speaker_overlap, emitted,
                      start_turn, current_size + turn_size(turns[i + 1]) + 1)

\* the fallback of chunk_by_speaker: chunk_text windows as one-speaker chunks
fallback_chunks(type, length, chunk_size, turn_range) ==
    LET windows == chunk_text(length, chunk_size)
    IN  [k \in 1..Len(windows) |->
            Chunk(type, <<k>>, <<>>, windows[k], turn_range, FALSE)]

\* chunk_by_speaker
chunk_by_speaker(lines, max_chunk_size, speaker_overlap) ==
    IF text_len(lines) = 0 THEN <<>>
    ELSE LET turns == speaker_turns(lines)
         IN  IF turns = <<>>
             THEN fallback_chunks("fallback", text_len(lines), max_chunk_size,
                                  <<0, 0>>)
             ELSE speaker_loop(turns, 0, max_chunk_size, speaker_overlap,
                               <<>>, 0, 0)

\* a run of lines first..final as a piece of text with its length
Piece(lines, first, final) ==
    [first |-> first, final |-> final, size |-> span_len(lines, first, final)]

Range(a, b) == [k \in 1..(b - a + 1) |-> a + k - 1]

\* the header_pattern of _chunk_structured_document matches the stripped line
\* and the line is shorter than 100 characters
is_header(line) == line.kind = "header" /\ line.len < 100

\* a section of lines first..final as a chunk
section_chunk(lines, first, final) ==
    Chunk("structured_section", Range(first, final), <<>>,
          span_len(lines, first, final), NoRange, FALSE)

\* the loop of _chunk_structured_document at line i; first = 0 when
\* current_section is empty. A header closes the section before it only when
\* that section has reached min_chunk_size; either way the header starts the
\* new current_section. Any other line joins the section, which is emitted once
\* it has grown past max_chunk_size
RECURSIVE structured_loop(_, _, _, _, _, _)
structured_loop(lines, i, config, emitted, first, current_size) ==
    IF i > Len(lines)
    THEN IF first > 0
         THEN Append(emitted, section_chunk(lines, first, Len(lines)))
         ELSE emitted
    ELSE IF is_header(lines[i])
    THEN structured_loop(lines, i + 1, config,
             IF first > 0 /\ current_size >= config.min_chunk_size
             THEN Append(emitted, section_chunk(lines, first, i - 1))
             ELSE emitted,
             i, lines[i].len)
    ELSE LET start == IF first > 0 THEN first ELSE i
             size  == current_size + lines[i].len + 1
         IN  IF size > config.max_chunk_size
             THEN structured_loop(lines, i + 1, config,
                      Append(emitted, section_chunk(lines, start, i)), 0, 0)
             ELSE structured_loop(lines, i + 1, config, emitted, start, size)

\* one chunk with the whole text
whole_text(type, lines) ==
    <<Chunk(type, <<1>>, <<>>, text_len(lines), NoRange, FALSE)>>

\* _chunk_structured_document
chunk_structured_document(lines, config) ==
    LET sections == structured_loop(lines, 1, config, <<>>, 0, 0)
    IN  IF sections # <<>> THEN sections
        ELSE whole_text("structured_fallback", lines)

\* the paragraphs of a text: the runs of lines between empty lines
RECURSIVE paragraphs_from(_, _, _, _)
paragraphs_from(lines, i, found, first) ==
    IF i > Len(lines)
    THEN IF first > 0 THEN Append(found, Piece(lines, first, Len(lines))) ELSE found
    ELSE IF lines[i].kind = "blank"
    THEN paragraphs_from(lines, i + 1,
             IF first > 0 THEN Append(found, Piece(lines, first, i - 1)) ELSE found,
             0)
    ELSE paragraphs_from(lines, i + 1, found, IF first > 0 THEN first ELSE i)

\* the chunk of the paragraphs held in current_chunk, the first of which is
\* the overlap when carried is set
paragraph_chunk(paragraphs, current, carried) ==
    LET own == IF carried THEN Tail(current) ELSE current
        size(k) == paragraphs[own[k]].size
    IN  Chunk("paragraph_based", own,
              IF carried THEN <<Head(current)>> ELSE <<>>,
              SumOver(size, 1, Len(own)) + 2 * (Len(own) - 1),
              NoRange, FALSE)

\* the loop of _chunk_by_paragraphs_enhanced at paragraph i
RECURSIVE paragraph_loop(_, _, _, _, _, _, _)
paragraph_loop(paragraphs, i, config, emitted, current, current_size, carried) ==
    IF i > Len(paragraphs)
    THEN IF current # <<>>
         THEN Append(emitted, paragraph_chunk(paragraphs, current, carried))
         ELSE emitted
    ELSE LET para_size == paragraphs[i].size
         IN  IF current_size + para_size > config.max_chunk_size /\ current # <<>>
             THEN LET closed == Append(emitted,
                                       paragraph_chunk(paragraphs, current, carried))
                      final == current[Len(current)]
                  IN  IF Len(current) > 1
                      THEN paragraph_loop(paragraphs, i + 1, config, closed,
                               <<final, i>>,
                               paragraphs[final].size + para_size + 2, TRUE)
                      ELSE paragraph_loop(paragraphs, i + 1, config, closed,
                               <<i>>, para_size, FALSE)
             ELSE paragraph_loop(paragraphs, i + 1, config, emitted,
                      Append(current, i), current_size + para_size + 2, carried)

\* _chunk_by_paragraphs_enhanced
chunk_by_paragraphs_enhanced(lines, config) ==
    LET paragraphs == paragraphs_from(lines, 1, <<>>, 0)
    IN  IF paragraphs = <<>> THEN whole_text("single_paragraph", lines)
        ELSE paragraph_loop(paragraphs, 1, config, <<>>, <<>>, 0, FALSE)

\* whether the sentence_pattern splits between two non-blank lines: the first
\* ends with . ! or ? and the second starts with a capital letter
ends_sentence(line) == line.kind \in {"speaker", "unlabelled", "chatty", "plain"}

starts_sentence(line) == line.kind \in {"speaker", "chatty", "plain"}

\* the sentences of text.strip(): runs of lines between two split points
RECURSIVE sentences_from(_, _, _, _, _)
sentences_from(lines, i, found, first, final) ==
    IF i > Len(lines)
    THEN IF first > 0 THEN Append(found, Piece(lines, first, final)) ELSE found
    ELSE IF lines[i].kind = "blank"
    THEN sentences_from(lines, i + 1, found, first, final)
    ELSE IF first > 0 /\ ends_sentence(lines[final]) /\ starts_sentence(lines[i])
    THEN sentences_from(lines, i + 1, Append(found, Piece(lines, first, final)), i, i)
    ELSE sentences_from(lines, i + 1, found, IF first > 0 THEN first ELSE i, i)

\* what create_embeddings and cosine_similarity give for n sentences: an
\* exception, or for every pair a score below the threshold (0) or one of two
\* scores at or above it
Pairs(n) == {p \in (1..n) \X (1..n) : p[1] < p[2]}

Embeddings(n) ==
    {[ok |-> FALSE, scores |-> <<>>]}
        \cup {[ok |-> TRUE, scores |-> s] : s \in [Pairs(n) -> 0..1]}

NoEmbedding == [ok |-> FALSE, scores |-> <<>>]

score(embedding, i, j) ==
    IF i < j THEN embedding.scores[<<i, j>>] ELSE embedding.scores[<<j, i>>]

\* the members of a set of numbers in increasing order
RECURSIVE Ascending(_)
Ascending(S) ==
    IF S = {} THEN <<>>
    ELSE LET least == CHOOSE x \in S : \A y \in S : x <= y
         IN  <<least>> \o Ascending(S \ {least})

\* similar_indices of sentence i after the sort: the unused sentences at or
\* above the threshold, by descending score, equal scores in text order
similar_indices(embedding, n, i, used) ==
    LET at(v) == {j \in 1..n : j # i /\ j \notin used /\ score(embedding, i, j) = v}
    IN  Ascending(at(2)) \o Ascending(at(1))

\* the sentences added to the chunk of sentence i while they fit
RECURSIVE fill_chunk(_, _, _, _, _)
fill_chunk(sentences, similar, current, current_size, max_chunk_size) ==
    IF similar = <<>> THEN current
    ELSE LET j == Head(similar)
         IN  IF current_size + sentences[j].size + 1 <= max_chunk_size
             THEN fill_chunk(sentences, Tail(similar), Append(current, j),
                             current_size + sentences[j].size + 1, max_chunk_size)
             ELSE fill_chunk(sentences, Tail(similar), current, current_size,
                             max_chunk_size)

\* the grouping loop of chunk_by_semantic_similarity at sentence i
RECURSIVE semantic_loop(_, _, _, _, _, _)
semantic_loop(sentences, embedding, i, max_chunk_size, emitted, used) ==
    IF i > Len(sentences) THEN emitted
    ELSE IF i \in used
    THEN semantic_loop(sentences, embedding, i + 1, max_chunk_size, emitted, used)
    ELSE LET similar == similar_indices(embedding, Len(sentences), i, used \cup {i})
             current == fill_chunk(sentences, similar, <<i>>, sentences[i].size,
                                   max_chunk_size)
             size(k) == sentences[current[k]].size
         IN  semantic_loop(sentences, embedding, i + 1, max_chunk_size,
                 Append(emitted,
                        Chunk("semantic", current, <<>>,
                              SumOver(size, 1, Len(current)) + Len(current) - 1,
                              NoRange, FALSE)),
                 used \cup {current[k] : k \in 1..Len(current)})

\* the shortest text chunk_by_semantic_similarity splits
min_semantic_text == 100

\* chunk_by_semantic_similarity
chunk_by_semantic_similarity(lines, max_chunk_size, embedding) ==
    LET sentences == sentences_from(lines, 1, <<>>, 0, 0)
    IN  IF text_len(lines) < min_semantic_text THEN whole_text("small_text", lines)
        ELSE IF Len(sentences) < 2 THEN whole_text("single_sentence", lines)
        ELSE IF ~embedding.ok
        THEN fallback_chunks("fallback_semantic", text_len(lines), max_chunk_size,
                             NoRange)
        ELSE semantic_loop(sentences, embedding, 1, max_chunk_size, <<>>, {})

\* variant that tries the structure detector first
strategy_structure_first(lines, file_name) ==
    IF detect_structured_document(lines) THEN "structured"
    ELSE IF detect_meeting_transcript(lines, file_name) THEN "speaker"
    ELSE IF detect_conversational_content(lines) THEN "semantic"
    ELSE "paragraph"

\* the strategy adaptive_chunk_text selects
strategy(lines, file_name) ==
    IF detect_meeting_transcript(lines, file_name) THEN "speaker"
    ELSE IF detect_structured_document(lines) THEN "structured"
    ELSE IF detect_conversational_content(lines) THEN "semantic"
    ELSE "paragraph"

\* adaptive_chunk_text
adaptive_chunk_text(lines, file_name, config, embedding) ==
    IF text_len(lines) = 0 THEN <<>>
    ELSE LET selected == strategy(lines, file_name)
         IN  CASE selected = "speaker" ->
                     chunk_by_speaker(lines, config.max_chunk_size,
                                      config.speaker_overlap)
               [] selected = "structured" -> chunk_structured_document(lines, config)
               [] selected = "semantic" ->
                     chunk_by_semantic_similarity(lines, config.max_chunk_size,
                                                  embedding)
               [] OTHER -> chunk_by_paragraphs_enhanced(lines, config)

\* process_and_chunk_text: the adaptive chunks, numbered as they come
process_and_chunk_text(lines, file_name, config, embedding) ==
    LET adaptive_chunks == adaptive_chunk_text(lines, file_name, config, embedding)
    IN  [i \in 1..Len(adaptive_chunks) |->
            [chunk |-> adaptive_chunks[i], chunk_index |-> i - 1]]

\* the embeddings a call can meet: they are asked for only on the semantic path
EmbeddingsFor(lines, file_name) ==
    IF text_len(lines) > 0 /\ strategy(lines, file_name) = "semantic"
    THEN Embeddings(Len(sentences_from(lines, 1, <<>>, 0, 0)))
    ELSE {NoEmbedding}

\* a text arrives for chunking
InitChunking ==
    /\ WatcherIdle
    /\ InsightsIdle
    /\ document \in [lines : Texts, file_name : FileNames, config : Configs]
    /\ chunks = NotChunked
    /\ saved_ids = NotSaved
    /\ semaphore = NoSemaphore

\* process_and_chunk_text on the text
ProcessAndChunkText ==
    /\ chunks = NotChunked
    /\ \E embedding \in EmbeddingsFor(document.lines, document.file_name) :
          chunks' = [done |-> TRUE,
                     list |-> process_and_chunk_text(document.lines,
                                 document.file_name, document.config, embedding)]
    /\ UNCHANGED <<document, saved_ids, semaphore>>
    /\ UNCHANGED wvars
    /\ UNCHANGED listed
    /\ UNCHANGED ivars

NextChunking == ProcessAndChunkText

SpecChunking == InitChunking /\ [][NextChunking]_vars

\* ------------------------------------------------------- the batch limiter
\* the largest INSIGHTS_BATCH_SIZE and the longest batch of the model
MaxLimit == 2
MaxBatchDocs == 3

\* asyncio.Semaphore(self.insights_batch_size): the free permits and the
\* coroutines queued in acquire(), oldest first; size keeps the configured value
Semaphore(size) == [size |-> size, value |-> size, waiters |-> <<>>]

\* process_single_doc before its first step, in acquire(), inside the
\* 'async with' block, and returned
Limited(at, outcome) == [pc |-> at, outcome |-> outcome]

\* how process_document_insights ends: a result with success True or False, or
\* an exception (doc['id'] is read inside the block as well)
Outcomes == {"success", "failed", "exception"}

InitLimiter ==
    /\ WatcherIdle
    /\ InsightsIdle
    /\ document = NoDocument
    /\ chunks = NotChunked
    /\ saved_ids = NotSaved
    /\ semaphore = NoSemaphore

\* process_batch_insights up to gather: the semaphore and one coroutine per
\* document
StartLimitedBatch(size, n) ==
    /\ semaphore = NoSemaphore
    /\ semaphore' = Semaphore(size)
    /\ tasks' = [t \in 1..n |-> Limited("created", "none")]
    /\ UNCHANGED <<raw_insights, filtered_insights, response_text, parsed,
                   document_insights, batch_summary, runs>>
    /\ UNCHANGED <<document, chunks, saved_ids>>
    /\ UNCHANGED wvars
    /\ UNCHANGED listed

\* variant of acquire() that never waits
acquire_unbounded(sem, t) ==
    [sem |-> [sem EXCEPT !.value = IF @ > 0 THEN @ - 1 ELSE 0], pc |-> "inside"]

\* semaphore.acquire() by coroutine t: a free permit is taken when nobody is
\* queued, otherwise the coroutine queues
acquire(sem, t) ==
    IF sem.value > 0 /\ sem.waiters = <<>>
    THEN [sem |-> [sem EXCEPT !.value = @ - 1], pc |-> "inside"]
    ELSE [sem |-> [sem EXCEPT !.waiters = Append(@, t)], pc |-> "waiting"]

\* semaphore.release(): the permit goes to the oldest queued coroutine, or
\* back to the semaphore
release(sem) ==
    IF sem.waiters # <<>>
    THEN [sem EXCEPT !.waiters = Tail(@)]
    ELSE [sem EXCEPT !.value = @ + 1]

\* 'async with semaphore' is entered by coroutine t
Acquire(t) ==
    /\ semaphore # NoSemaphore
    /\ t \in DOMAIN tasks
    /\ tasks[t].pc = "created"
    /\ LET got == acquire(semaphore, t)
       IN  /\ semaphore' = got.sem
           /\ tasks' = [tasks EXCEPT ![t].pc = got.pc]
    /\ UNCHANGED <<raw_insights, filtered_insights, response_text, parsed,
                   document_insights, batch_summary, runs>>
    /\ UNCHANGED <<document, chunks, saved_ids>>
    /\ UNCHANGED wvars
    /\ UNCHANGED listed

\* process_document_insights of coroutine t ends and the block is left: the
\* permit is released whatever the outcome, and the oldest waiter enters
Release(t, outcome) ==
    /\ semaphore # NoSemaphore
    /\ t \in DOMAIN tasks
    /\ tasks[t].pc = "inside"
    /\ semaphore' = release(semaphore)
    /\ tasks' = [u \in DOMAIN tasks |->
                    IF u = t THEN Limited("done", outcome)
                    ELSE IF semaphore.waiters # <<>> /\ u = Head(semaphore.waiters)
                    THEN Limited("inside", "none")
                    ELSE tasks[u]]
    /\ UNCHANGED <<raw_insights, filtered_insights, response_text, parsed,
                   document_insights, batch_summary, runs>>
    /\ UNCHANGED <<document, chunks, saved_ids>>
    /\ UNCHANGED wvars
    /\ UNCHANGED listed

NextLimiter ==
    \/ \E size \in 1..MaxLimit, n \in 1..MaxBatchDocs : StartLimitedBatch(size, n)
    \/ \E t \in 1..MaxBatchDocs : Acquire(t)
    \/ \E t \in 1..MaxBatchDocs, outcome \in Outcomes : Release(t, outcome)

SpecLimiter == InitLimiter /\ [][NextLimiter]_vars

\* the event loop runs every coroutine that can run, and every call to
\* process_document_insights returns
SpecLimiterFair == SpecLimiter /\ WF_vars(NextLimiter)

\* --------------------------------------- MeetingTranscriptChunker: boundaries
\* the default sizes of MeetingTranscriptChunker
target_chunk_size == 1500
overlap_size == 300
meeting_min_chunk_size == 800
meeting_max_chunk_size == 2500

\* the shortest stripped content _create_chunks_with_boundaries keeps
min_viable_content == 50

\* the places in the preprocessed transcript where a line can start a boundary,
\* and the transcript lengths of the model
BoundaryGrid == {40, 900, 1600, 2700, 4400}

ContentLengths == {2800, 4500, 5600}

\* what rfind('\n\n') and rfind('. ') give inside the first target_chunk_size
\* characters of a span that is cut: -1 when there is none
BreakPoints == {-1, 1000, 1400}

\* _identify_semantic_boundaries returns 0, the boundary lines' starts in
\* increasing order, and len(content)
boundaries_of(length, starts) ==
    <<0>> \o Ascending({b \in starts : b < length}) \o <<length>>

Transcripts ==
    {[length |-> length, boundaries |-> boundaries_of(length, starts),
      last_paragraph |-> p, last_sentence |-> s] :
        length \in ContentLengths, starts \in SUBSET BoundaryGrid,
        p \in BreakPoints, s \in BreakPoints}

\* the inner while loop: boundaries are passed while the span is shorter than
\* the target and another boundary follows (i is 0-based as in the code)
RECURSIVE extend_span(_, _, _)
extend_span(boundaries, i, chunk_start) ==
    IF boundaries[i + 2] - chunk_start < target_chunk_size /\ i + 2 < Len(boundaries)
    THEN extend_span(boundaries, i + 1, chunk_start)
    ELSE i

\* where a span [chunk_start, chunk_end) ends after the size test: a span over
\* the maximum is cut at the target size, or at the last paragraph or sentence
\* break when the test on it passes
cut_end(content, chunk_start, chunk_end) ==
    IF chunk_end - chunk_start > meeting_max_chunk_size
    THEN IF content.last_paragraph > chunk_start + meeting_min_chunk_size
         THEN chunk_start + content.last_paragraph
         ELSE IF content.last_sentence > chunk_start + meeting_min_chunk_size
         THEN chunk_start + content.last_sentence + 1
         ELSE chunk_start + target_chunk_size
    ELSE chunk_end

\* len(content[chunk_start:chunk_end].strip()): a span that ends at a boundary
\* inside the text ends with the newline before the boundary line
stripped_len(content, chunk_start, chunk_end) ==
    IF chunk_end > chunk_start /\ chunk_end < content.length
       /\ \E k \in 1..Len(content.boundaries) : content.boundaries[k] = chunk_end
    THEN chunk_end - chunk_start - 1
    ELSE chunk_end - chunk_start

\* the loop of _create_chunks_with_boundaries at boundary i (0-based): the
\* chunk goes from boundaries[i] to the end found above, with the overlap_size
\* characters before it when it is not the first; the next chunk starts at the
\* boundary after the span
RECURSIVE chunks_from(_, _, _)
chunks_from(content, i, emitted) ==
    IF i >= Len(content.boundaries) - 1 THEN emitted
    ELSE LET chunk_start == content.boundaries[i + 1]
             reached == extend_span(content.boundaries, i, chunk_start)
             span_end == content.boundaries[reached + 2]
             chunk_end == cut_end(content, chunk_start, span_end)
             overlap_start == IF chunk_start - overlap_size > 0
                              THEN chunk_start - overlap_size ELSE 0
             piece == [from |-> chunk_start, to |-> chunk_end,
                       overlap_from |-> IF emitted # <<>> /\ overlap_size > 0
                                        THEN overlap_start ELSE chunk_start]
         IN  chunks_from(content, reached + 1,
                 IF stripped_len(content, chunk_start, chunk_end) > min_viable_content
                 THEN Append(emitted, piece) ELSE emitted)

\* _create_chunks_with_boundaries
create_chunks_with_boundaries(content) == chunks_from(content, 0, <<>>)

\* a preprocessed transcript with its boundaries
InitBoundaries ==
    /\ WatcherIdle
    /\ InsightsIdle
    /\ document \in Transcripts
    /\ chunks = NotChunked
    /\ saved_ids = NotSaved
    /\ semaphore = NoSemaphore

CreateChunksWithBoundaries ==
    /\ chunks = NotChunked
    /\ chunks' = [done |-> TRUE, list |-> create_chunks_with_boundaries(document)]
    /\ UNCHANGED <<document, saved_ids, semaphore>>
    /\ UNCHANGED wvars
    /\ UNCHANGED ivars
    /\ UNCHANGED listed

NextBoundaries == CreateChunksWithBoundaries

SpecBoundaries == InitBoundaries /\ [][NextBoundaries]_vars

\* ------------------------------------------------------------------ claims
\* a listing entry of id that carries arbitrary timestamps
EntryWith(id, c, u) ==
    [id |-> id, meta |-> storage[id].meta, created_at |-> c, updated_at |-> u]

\* the stored fingerprint of id equals the fingerprint of its current bytes
SameFingerprint(id) ==
    /\ id \in DOMAIN storage
    /\ id \in DOMAIN known_files
    /\ known_files[id] = compute_file_hash(storage[id].bytes)

InCalls(c, calls) == \E i \in 1..Len(calls) : calls[i] = c

CountCalls(c, calls) == Cardinality({i \in 1..Len(calls) : calls[i] = c})

\* C1: process_file on an object whose downloaded bytes have the fingerprint
\* stored in known_files for its identity returns True, calls neither
\* delete_document_by_file_id nor process_file_for_rag, and leaves known_files
\* (and the store) unchanged, whatever created_at / updated_at the listing
\* entry carries and whatever else would have failed later in the call.
C1_UnchangedObjectIsSkipped ==
    \A id \in DOMAIN storage, fault \in Faults \ {"download"},
       c \in 0..MaxTime, u \in 0..MaxTime :
        LET o == process_file(EntryWith(id, c, u), fault, storage, dry_run,
                              known_files, store)
        IN  SameFingerprint(id) =>
              /\ o.result = "True"
              /\ o.calls = <<>>
              /\ o.known = known_files
              /\ o.store = store

\* C1 witness: a call was skipped in a real run (not a dry run) on an object
\* touched after its first upload, with its chunks still in the store
C1_Witness ==
    /\ ~dry_run
    /\ last.result = "True"
    /\ last.calls = <<>>
    /\ SameFingerprint(last.id)
    /\ storage[last.id].updated_at > storage[last.id].created_at
    /\ Len(store[last.id]) = 1

\* C2: process_file on an identity already in known_files with a different
\* fingerprint (no dry run, supported media type, nothing fails) calls
\* delete_document_by_file_id once, then process_file_for_rag once, returns
\* True, and records the fingerprint of the newly downloaded bytes.
C2_UpdateDeletesThenProcesses ==
    \A id \in DOMAIN storage :
        LET info == file_info(storage, id)
            h    == compute_file_hash(storage[id].bytes)
            o    == process_file(info, "none", storage, dry_run, known_files, store)
        IN  ( /\ ~dry_run
              /\ id \in DOMAIN known_files
              /\ known_files[id] # h
              /\ info.meta # "null"
              /\ is_mime_type_supported(mime_type_of(info)) )
            => /\ o.calls = <<"delete_document_by_file_id", "process_file_for_rag">>
               /\ o.result = "True"
               /\ o.known[id] = h
               /\ o.store[id] = <<h>>

\* C2 witness: an update was processed, the store holds the new version only
C2_Witness ==
    /\ last.result = "True"
    /\ last.calls = <<"delete_document_by_file_id", "process_file_for_rag">>
    /\ SameFingerprint(last.id)
    /\ store[last.id] = <<known_files[last.id]>>

\* C3: known_files changes only in a step that is a process_file call in which
\* process_file_for_rag was called and succeeded (the call returned True), and
\* the one entry written is the fingerprint of the bytes processed in that
\* call; every other outcome leaves known_files as it was.
C3_FingerprintOnlyAfterSuccess ==
    [][ /\ known_files' # known_files =>
            /\ last'.result = "True"
            /\ CountCalls("process_file_for_rag", last'.calls) = 1
            /\ last'.id \in DOMAIN storage
            /\ known_files' = Put(known_files, last'.id,
                                  compute_file_hash(storage[last'.id].bytes))
        /\ (last'.result \in {"False", "raised", "interrupted"} \/ dry_run)
              => known_files' = known_files
      ]_vars

\* C3 witness: a failed reprocessing of changed content left the old
\* fingerprint in place
C3_Witness ==
    /\ last.result = "False"
    /\ InCalls("process_file_for_rag", last.calls)
    /\ last.id \in DOMAIN known_files
    /\ ~SameFingerprint(last.id)

\* the step is a process_file call made by a running mode
ModeCall == pc \in {"watch_batch", "backfill", "single"} /\ last' # NoCall

\* C4 (as stated): in watch, backfill and single runs process_file_for_rag is
\* invoked for an object if and only if its current fingerprint differs from
\* the one stored in known_files, or none is stored.
C4_ReprocessedIffFingerprintDiffers ==
    [][ ModeCall =>
          (InCalls("process_file_for_rag", last'.calls)
              <=> ~SameFingerprint(last'.id)) ]_vars

\* C4 (amended): process_file_for_rag is invoked for an object only if its
\* current fingerprint differs from the stored one or none is stored; and
\* every call outside dry run that returns True for such an object has
\* invoked process_file_for_rag exactly once (an unchanged object is never
\* reprocessed; a changed one is reprocessed unless the call fails, the media
\* type is unsupported, or the run is a dry run).
C4_ReprocessedOnlyIfFingerprintDiffers ==
    [][ ModeCall =>
          /\ InCalls("process_file_for_rag", last'.calls)
                => ~SameFingerprint(last'.id)
          /\ (~SameFingerprint(last'.id) /\ ~dry_run /\ last'.result = "True")
                => CountCalls("process_file_for_rag", last'.calls) = 1
          /\ SameFingerprint(last'.id)
                => last'.calls = <<>> /\ store' = store ]_vars

\* C4 witness: a watch cycle reprocessed an object whose content had changed
C4_Witness ==
    /\ pc = "watch_batch"
    /\ last.result = "True"
    /\ last.calls = <<"delete_document_by_file_id", "process_file_for_rag">>
    /\ SameFingerprint(last.id)

\* C5: after any sequence of process_file calls, save_state calls and watcher
\* restarts (database-backed or file-backed state), the document store holds
\* the chunks of at most one processing of each object identity.
C5_AtMostOneProcessingStored ==
    \A id \in Ids : Len(store[id]) <= 1

\* C6: in watch mode a failure while handling one object (a call that returns
\* False or lets an exception escape) leaves the loop running on the rest of
\* the batch.
C6_FailureDoesNotStopTheLoop ==
    [][ (pc = "watch_batch" /\ last' # NoCall
           /\ last'.result \in {"False", "raised"})
          => (pc' = "watch_batch" /\ batch' = Tail(batch)) ]_vars

\* C7: in watch mode every changed object a cycle did not process
\* successfully (it failed, or lay beyond the per-cycle cap) is returned again
\* by get_changes at the top of the next cycle.
C7_UnprocessedIsDetectedAgain ==
    pc = "watch_top" =>
        pending \subseteq IdsOf(get_changes(storage, last_check_time, TRUE))

Min(a, b) == IF a < b THEN a ELSE b

\* C9: backfill(max_files = n) takes exactly min(n, number of listed objects)
\* objects for every given cap n (all of them when no cap is given), whatever
\* last_check_time is, and has handled all of them when it has saved the state.
C9_BackfillTakesMinOfCapAndListed ==
    LET all_files == list_all(storage, TRUE)
    IN  /\ \A n \in 0..MaxCap :
              Len(backfill_files(all_files, TRUE, n)) = Min(n, Len(all_files))
        /\ \A n \in 0..MaxCap : backfill_files(all_files, FALSE, n) = all_files
        /\ pc = "done" => batch = <<>>

\* C10: when an interrupt ends watch_for_changes, at whatever point of the
\* cycle, the state has been saved before the method returns (the persisted
\* state is what save_state writes for the watcher's final state); the
\* persisted known_files only ever changes to the watcher's known_files, which
\* only ever changes by recording the fingerprint of an object whose
\* processing just completed successfully.
C10_InterruptSavesOnlySuccessfulFingerprints ==
    [][ /\ pc' = "interrupted" =>
             saved' = save_state(dry_run, backend, saved', last_check_time',
                                 known_files')
        /\ saved'.known_files # saved.known_files =>
             saved'.known_files = known_files'
        /\ known_files' # known_files =>
             /\ last'.result = "True"
             /\ CountCalls("process_file_for_rag", last'.calls) = 1
             /\ known_files' = Put(known_files, last'.id,
                                   compute_file_hash(storage[last'.id].bytes))
      ]_vars

\* C10 witness: the loop was interrupted in the middle of an object, after
\* another object's fingerprint had been recorded, and the database holds it
C10_Witness ==
    /\ pc = "interrupted"
    /\ last.result = "interrupted"
    /\ backend = "db"
    /\ ~dry_run
    /\ known_files # EmptyMap
    /\ saved.known_files = known_files
    /\ last.id \notin DOMAIN known_files

\* C11: get_changes returns exactly the listed objects of the two buckets
\* whose created_at or updated_at is strictly after last_check_time, each once,
\* and none whose timestamps are both at or before it (for the watcher's own
\* watermark and for every other watermark value).
C11_GetChangesIsExactlyTheNewer ==
    \A lct \in {last_check_time} \cup (0..MaxTime) :
        LET changed == get_changes(storage, lct, TRUE)
        IN  /\ IdsOf(changed) =
                 {id \in DOMAIN storage :
                     storage[id].created_at > lct \/ storage[id].updated_at > lct}
            /\ Cardinality(IdsOf(changed)) = Len(changed)
            /\ \A i \in 1..Len(changed) :
                 changed[i] = file_info(storage, changed[i].id)

\* C11 witness: a watch cycle has just taken the one object uploaded after the
\* watermark and left out the one stamped exactly at the watermark
C11_Witness ==
    /\ pc = "watch_batch"
    /\ DOMAIN storage = Ids
    /\ Len(get_changes(storage, last_check_time, TRUE)) = 1
    /\ IdsOf(batch) = IdsOf(get_changes(storage, last_check_time, TRUE))
    /\ \E id \in Ids : storage[id].updated_at = last_check_time

\* C12: when process_file reprocesses an updated object and the deletion of
\* the old chunks fails, process_file_for_rag is still called for the new
\* content.
C12_DeleteFailureStillWrites ==
    \A id \in DOMAIN storage :
        LET info == file_info(storage, id)
            o    == process_file(info, "delete", storage, dry_run, known_files, store)
        IN  ( /\ ~dry_run
              /\ id \in DOMAIN known_files
              /\ ~SameFingerprint(id)
              /\ info.meta # "null"
              /\ is_mime_type_supported(mime_type_of(info)) )
            => InCalls("process_file_for_rag", o.calls)


\* the one candidate of a response of one, converted
OnlyCandidate == convert_to_structured_insight(raw_insights[1])

\* C16: a candidate with confidence below 0.7 and neither a financial impact
\* nor the critical-path flag is dropped by _filter_and_rank_insights, and an
\* otherwise identical candidate (one that passes with confidence 0.9) that
\* carries a financial impact or the critical-path flag survives.
C16_FinancialOrCriticalPathEscapesConfidence ==
    ( /\ filtered_insights.ran
      /\ Len(raw_insights) = 1
      /\ OnlyCandidate # NoInsight
      /\ OnlyCandidate.confidence_score < 70
      /\ is_high_quality([OnlyCandidate EXCEPT !.confidence_score = 90]) )
    => IF OnlyCandidate.financial_impact # 0 \/ OnlyCandidate.critical_path_impact
       THEN filtered_insights.insights = <<OnlyCandidate>>
       ELSE filtered_insights.insights = <<>>

\* description overlap of at least 8/10, on the word sets
OverlapAtLeast(text1, text2, num) ==
    /\ text1.words # {} /\ text2.words # {}
    /\ 10 * Cardinality(text1.words \cap text2.words)
         >= num * Cardinality(text1.words \cup text2.words)

\* C17: of two candidates whose description word sets overlap by at least
\* 0.8, _remove_duplicate_insights keeps exactly one, the one with the higher
\* confidence, in whichever order the two come.
C17_DuplicatesKeepTheMoreConfident ==
    LET pair == structured_insights(raw_insights)
    IN  ( /\ filtered_insights.ran
          /\ Len(raw_insights) = 2 /\ Len(pair) = 2
          /\ OverlapAtLeast(pair[1].description, pair[2].description, 8)
          /\ pair[1].confidence_score # pair[2].confidence_score )
        => remove_duplicate_insights(pair) =
              << IF pair[1].confidence_score > pair[2].confidence_score
                 THEN pair[1] ELSE pair[2] >>

\* C19: every stored insight has a confidence in [0, 1] and a severity among
\* critical, high, medium, low, whatever the model returned.
C19_StoredConfidenceAndSeverityInRange ==
    \A d \in Documents : \A i \in 1..Len(document_insights[d]) :
        /\ document_insights[d][i].insight.confidence_score \in 0..100
        /\ document_insights[d][i].insight.severity \in BusinessSeverity


\* C18: _parse_insights_json never raises, whatever the response text, and
\* what it returns is always a list.
C18_ParseNeverRaisesAndReturnsAList ==
    parsed # NotParsed => parsed.raised = "none" /\ parsed.kind = "list"


\* C13: after any sequence of runs of the insight pipeline, no document has
\* more than 5 stored insights.
C13_AtMostFiveInsightsPerDocument ==
    \A d \in Documents : Len(document_insights[d]) <= max_insights

\* C14: without a forced reprocess insights are never created twice for a
\* document: whenever a process_document_insights task (alone, in a batch or
\* behind a trigger) inserts rows, the document had none just before, so a
\* document with rows gets no new ones and a document without rows gets those
\* of one task only.
C14_NoSecondCreationWithoutForce ==
    [][\A t \in Tasks :
          ( /\ tasks[t].pc = "awaiting" /\ tasks'[t].pc = "done"
            /\ tasks'[t].op \in {"process_document_insights", "trigger"}
            /\ tasks'[t].saved > 0 )
          => document_insights[tasks[t].doc] = <<>>]_vars

\* the rows of a document are those of one run
RowsAreOf(rows, run) == \A i \in 1..Len(rows) : rows[i].run = run

\* C15: a trigger with force_reprocess on a document that has rows, when it
\* returns success, has run the extraction on the document with its prior
\* rows deleted, and leaves for the document exactly the rows of its own run.
C15_ForcedReprocessReplacesTheRecords ==
    [][\A t \in Tasks :
          ( /\ tasks[t].pc # "done" /\ tasks'[t].pc = "done"
            /\ tasks'[t].op = "force_trigger"
            /\ tasks'[t].before > 0
            /\ tasks'[t].outcome \in {"success", "skipped"} )
          => /\ tasks'[t].extracted
             /\ tasks'[t].prior = 0
             /\ RowsAreOf(document_insights'[tasks'[t].doc], tasks'[t].run)
             /\ Len(document_insights'[tasks'[t].doc]) = tasks'[t].saved]_vars

C21_SaveReturnsTheIdsOfTheSucceededInserts ==
    (filtered_insights.ran /\ runs = 1) =>
        LET insights == filtered_insights.insights
            table    == document_insights["d1"]
            ok       == SelectSeq([i \in 1..Len(insights) |-> i],
                                  LAMBDA i : i \in saved_ids.succeeded)
        IN  /\ saved_ids.attempted = Len(insights)
            /\ Len(saved_ids.ids) = Len(ok)
            /\ \A j \in 1..Len(ok) :
                  /\ saved_ids.ids[j] \in 1..Len(table)
                  /\ table[saved_ids.ids[j]].insight = insights[ok[j]]
            /\ \A j, k \in 1..Len(ok) : j < k => saved_ids.ids[j] < saved_ids.ids[k]
            /\ Len(table) = Len(ok)

\* a save where an insert fails and a later one succeeds
C21_Witness ==
    /\ filtered_insights.ran /\ runs = 1
    /\ \E i, j \in 1..Len(filtered_insights.insights) :
          i < j /\ i \notin saved_ids.succeeded /\ j \in saved_ids.succeeded
    /\ Len(saved_ids.ids) >= 2

\* the chunk types of the chunks process_and_chunk_text returned
ChunkTypes == {chunks.list[i].chunk.chunk_type : i \in 1..Len(chunks.list)}

Chunked == chunks # NotChunked /\ text_len(document.lines) > 0

Transcript == detect_meeting_transcript(document.lines, document.file_name)

\* C23 as stated: every non-empty document detected as a transcript is
\* chunked by speaker turns and all its chunks are "speaker_based"
C23_DetectedTranscriptIsSpeakerBased ==
    (Chunked /\ Transcript) =>
        /\ chunks.list # <<>>
        /\ ChunkTypes = {"speaker_based"}

\* C23: the strategy is the first match in the order transcript, structured,
\* conversational, paragraphs; a detected transcript in which chunk_by_speaker
\* finds a speaker turn has "speaker_based" chunks only, whatever else it
\* matches, and one without a turn gets the "fallback" windows
C23_FirstMatchAndSpeakerBasedWhenTurnsExist ==
    Chunked =>
        LET lines == document.lines
            structured == detect_structured_document(lines)
            conversational == detect_conversational_content(lines)
        IN  /\ chunks.list # <<>>
            /\ Transcript =>
                  ChunkTypes = IF speaker_turns(lines) # <<>>
                               THEN {"speaker_based"} ELSE {"fallback"}
            /\ (~Transcript /\ structured) =>
                  ChunkTypes \subseteq {"structured_section", "structured_fallback"}
            /\ (~Transcript /\ ~structured /\ conversational) =>
                  ChunkTypes \subseteq {"semantic", "small_text", "single_sentence",
                                        "fallback_semantic"}
            /\ (~Transcript /\ ~structured /\ ~conversational) =>
                  ChunkTypes \subseteq {"paragraph_based", "single_paragraph"}

\* a text that all three detectors match by its content, chunked by speaker
C23_Witness ==
    /\ Chunked
    /\ ~has_transcript_keyword(document.file_name)
    /\ Transcript
    /\ detect_structured_document(document.lines)
    /\ detect_conversational_content(document.lines)
    /\ ChunkTypes = {"speaker_based"}
    /\ Len(chunks.list) >= 2

\* the pieces of the input a chunk holds, context and overlap left out
UnitsOf(i) == chunks.list[i].chunk.units

\* C24: chunk_index runs 0..n-1 in emission order, and the chunks follow the
\* left-to-right order of the input text: the pieces inside a chunk stand in
\* input order and every piece of a chunk precedes every piece of a later one
C24_ChunksFollowTheTextOrder ==
    Chunked =>
        /\ \A i \in 1..Len(chunks.list) : chunks.list[i].chunk_index = i - 1
        /\ \A i \in 1..Len(chunks.list) :
              \A a, b \in 1..Len(UnitsOf(i)) : a < b => UnitsOf(i)[a] < UnitsOf(i)[b]
        /\ \A i, j \in 1..Len(chunks.list) :
              i < j => \A a \in 1..Len(UnitsOf(i)) : \A b \in 1..Len(UnitsOf(j)) :
                          UnitsOf(i)[a] < UnitsOf(j)[b]

\* C25: no emitted chunk, its context or overlap not counted, is longer than
\* max_chunk_size, and no chunk but the last is shorter than min_chunk_size
C25_ChunkSizesWithinTheConfiguredBounds ==
    Chunked =>
        \A i \in 1..Len(chunks.list) :
            /\ chunks.list[i].chunk.size <= document.config.max_chunk_size
            /\ i < Len(chunks.list) =>
                  chunks.list[i].chunk.size >= document.config.min_chunk_size

\* current_size after the turns a..b (0-based) have been added to a chunk
SizeAfter(turns, a, b) ==
    LET grown(k) == turn_size(turns[k]) + 1 IN SumOver(grown, a + 1, b + 1)

\* C26: for a transcript with at least one turn the turn_range values of
\* chunk_by_speaker split 0..len(turns)-1 into consecutive non-empty ranges in
\* increasing order, a chunk holds exactly the turns of its range as its own
\* lines, a chunk ends at the turn before the one that did not fit, and
\* has_context is set exactly when context lines were prepended, which is for
\* every chunk but the first when speaker_overlap > 0
C26_TurnRangesPartitionTheTurns ==
    (Chunked /\ ChunkTypes = {"speaker_based"}) =>
        LET turns == speaker_turns(document.lines)
            n == Len(chunks.list)
            max_chunk_size == document.config.max_chunk_size
            at(i) == chunks.list[i].chunk
            first(i) == at(i).turn_range[1]
            final(i) == at(i).turn_range[2]
        IN  /\ turns # <<>> /\ n >= 1
            /\ first(1) = 0 /\ final(n) = Len(turns) - 1
            /\ \A i \in 1..n :
                  /\ Len(at(i).turn_range) = 2
                  /\ first(i) <= final(i)
                  /\ i < n => first(i + 1) = final(i) + 1
                  /\ at(i).units = [k \in 1..(final(i) - first(i) + 1) |-> first(i) + k]
                  /\ i < n => SizeAfter(turns, first(i), final(i))
                                 + turn_size(turns[final(i) + 2]) > max_chunk_size
                  /\ \A k \in (first(i) + 1)..final(i) :
                        SizeAfter(turns, first(i), k - 1) + turn_size(turns[k + 1])
                            <= max_chunk_size
                  /\ at(i).has_context <=> at(i).context # <<>>
                  /\ at(i).context # <<>>
                        <=> (document.config.speaker_overlap > 0 /\ first(i) > 0)
                  /\ \A c \in 1..Len(at(i).context) : at(i).context[c] <= first(i)

\* a transcript cut into three chunks, the later ones with context, one of
\* them holding two turns
C26_Witness ==
    /\ Chunked /\ ChunkTypes = {"speaker_based"}
    /\ Len(chunks.list) = 3
    /\ ~chunks.list[1].chunk.has_context
    /\ chunks.list[2].chunk.has_context /\ chunks.list[3].chunk.has_context
    /\ \E i \in 1..3 : Len(chunks.list[i].chunk.units) = 2

\* the pieces of all chunks in emission order
RECURSIVE UnitsFrom(_)
UnitsFrom(i) == IF i > Len(chunks.list) THEN <<>> ELSE UnitsOf(i) \o UnitsFrom(i + 1)

\* C29: _chunk_structured_document loses no content: its chunks, put one after
\* the other, hold the input's lines that are not empty, each once and in order
C29_StructuredChunksHoldEveryLine ==
    (Chunked /\ ChunkTypes = {"structured_section"}) =>
        LET written(k) == document.lines[k].kind # "blank"
        IN  SelectSeq(UnitsFrom(1), written)
               = SelectSeq(Range(1, Len(document.lines)), written)

\* whether a is among the insights
Among(a, insights) == \E i \in 1..Len(insights) : insights[i] = a

\* C27: after _remove_duplicate_insights no two survivors are duplicates of
\* each other, and every insight that was dropped has a survivor that is
\* similar to it and at least as confident
C27_SurvivorsAreDistinctAndCoverTheDropped ==
    filtered_insights.ran =>
        LET given == structured_insights(raw_insights)
            kept  == filtered_insights.insights
        IN  /\ \A i, j \in 1..Len(kept) : i < j => ~is_similar(kept[i], kept[j])
            /\ \A k \in 1..Len(given) :
                  ~Among(given[k], kept) =>
                      \E i \in 1..Len(kept) :
                          /\ is_similar(given[k], kept[i])
                          /\ kept[i].confidence_score >= given[k].confidence_score

\* whether the object, as it is now, was not in the buckets when the running
\* cycle's get_changes listed them, and was put there before the present moment
ChangedSinceListing(id) ==
    /\ listed # NoListing
    /\ id \in DOMAIN storage
    /\ id \notin DOMAIN listed \/ listed[id] # storage[id]
    /\ storage[id].updated_at < now

\* C28: an object created or modified after a cycle's listing and before that
\* cycle sets last_check_time is not missed: when the cycle moves the
\* watermark, the object still counts as changed, so that the next get_changes
\* returns it
C28_ChangeDuringTheBatchIsNotMissed ==
    [][(pc = "watch_batch" /\ pc' = "watch_sleep") =>
          \A id \in Ids :
              ChangedSinceListing(id) =>
                  is_changed(file_info(storage', id), last_check_time')]_vars

\* the coroutines inside the 'async with' block
Inside == {t \in DOMAIN tasks : tasks[t].pc = "inside"}

Covered(pos) ==
    \E i \in 1..Len(chunks.list) :
        chunks.list[i].overlap_from <= pos /\ pos < chunks.list[i].to

\* C30: under the default sizes _create_chunks_with_boundaries loses no
\* content: every character of the preprocessed transcript that stands between
\* two boundaries more than 50 characters apart is in at least one chunk
C30_EveryCharacterOfALongSegmentIsCovered ==
    chunks # NotChunked =>
        \A k \in 1..(Len(document.boundaries) - 1) :
            document.boundaries[k + 1] - document.boundaries[k] > min_viable_content + 1
                => \A pos \in document.boundaries[k]..(document.boundaries[k + 1] - 1) :
                      Covered(pos)
====
